---- MODULE Spec2Model ----
(***************************************************************************)
(* A model of xywanz/datetime (include/datetime.h, src/datetime.cc): the   *)
(* proleptic Gregorian calendar arithmetic and the timedelta value type.   *)
(*                                                                         *)
(* C `int` is 32 bits wide and C `long` 64 bits wide (LP64).  TLC's own    *)
(* integers are 32 bits wide, so every `long` of the program is carried as *)
(* an exact integer in sign-magnitude form (the Z... operators below) and  *)
(* reduced to 64 bits where the program's arithmetic would be.             *)
(***************************************************************************)
EXTENDS Integers, Sequences, FiniteSets, TLC

(***************************************************************************)
(* Program constants.                                                      *)
(***************************************************************************)
kMinYear == 1
kMaxYear == 9999
kMaxOrdinal == 3652059
kMaxDeltaDays == 999999999
DI4Y == 1461
DI100Y == 36524
DI400Y == 146097

(***************************************************************************)
(* Bounds of the model.                                                    *)
(***************************************************************************)
\* ordinals 1..HeadDays and kMaxOrdinal-HeadDays+1..kMaxOrdinal are all tried
HeadDays == 150000
\* ordinals within Window days of every 100-year boundary are tried
Window == 2

VARIABLES
    cal_pc,     \* calendar round trip: "start", "converted", "done", "error"
    ordinal,    \* the int handed to date::fromordinal
    ymd,        \* the date built from it: [year, month, day]
    back        \* its toordinal()

VARIABLES
    td_pc,      \* timedelta program: "a" (a to construct), "b" (a constructed),
                \* "ops" (b constructed), "done", "thrown", "dead"
    da,         \* the timedelta variable a: [days, seconds, microseconds]
    db,         \* the timedelta variable b
    out         \* the last operation: what it was applied to and how it ended

cal_vars == <<cal_pc, ordinal, ymd, back>>

td_vars == <<td_pc, da, db, out>>

VARIABLES
    dt_pc,      \* date/datetime program: "args" (arguments chosen), "made"
                \* (an object constructed), "done", "thrown", "dead"
    dt_in,      \* the arguments handed to the next call
    dt_a,       \* the date or datetime object the program holds
    dt_out      \* the last operation: its operands and how it ended

dt_vars == <<dt_pc, dt_in, dt_a, dt_out>>

vars == <<cal_vars, td_vars, dt_vars>>

\* the date/datetime program before it starts
DateIdle ==
    /\ dt_pc = "idle"
    /\ dt_in = <<>>
    /\ dt_a = <<>>
    /\ dt_out = <<>>

(***************************************************************************)
(* Calendar math.                                                          *)
(***************************************************************************)
kDaysInMonth == <<31, 28, 31, 30, 31, 30, 31, 31, 30, 31, 30, 31>>

kDaysBeforeMonth == <<0, 31, 59, 90, 120, 151, 181, 212, 243, 273, 304, 334>>

is_leap(year) == year % 4 = 0 /\ (year % 100 # 0 \/ year % 400 = 0)

days_in_month(year, month) ==
    IF month = 2 /\ is_leap(year) THEN 29 ELSE kDaysInMonth[month]

days_before_month(year, month) ==
    kDaysBeforeMonth[month] + (IF month > 2 /\ is_leap(year) THEN 1 ELSE 0)

\* y >= 0 here (the code asserts year >= 1), so C's / is \div
days_before_year(year) ==
    LET y == year - 1
    IN  y * 365 + (y \div 4) - (y \div 100) + (y \div 400)

\* ordinal >= 1 (asserted by the code, guarded by date::fromordinal)
ord_to_ymd(ord) ==
    LET o0   == ord - 1
        n400 == o0 \div DI400Y
        r400 == o0 % DI400Y
        n100 == r400 \div DI100Y
        r100 == r400 % DI100Y
        n4   == r100 \div DI4Y
        r4   == r100 % DI4Y
        n1   == r4 \div 365
        n    == r4 % 365
        year == n400 * 400 + 1 + n100 * 100 + n4 * 4 + n1
    IN  IF n1 = 4 \/ n100 = 4
        THEN [year |-> year - 1, month |-> 12, day |-> 31]
        ELSE LET leapyear == n1 = 3 /\ (n4 # 24 \/ n100 = 3)
                 est      == (n + 50) \div 32
                 prec     == kDaysBeforeMonth[est]
                             + (IF est > 2 /\ leapyear THEN 1 ELSE 0)
                 month    == IF prec > n THEN est - 1 ELSE est
                 preceding == IF prec > n
                              THEN prec - days_in_month(year, month)
                              ELSE prec
             IN  [year |-> year, month |-> month, day |-> n - preceding + 1]

\* ymd_to_ord with the leap-day adjustment of days_before_month forgotten
ymd_to_ord_no_leap(year, month, day) ==
    days_before_year(year) + kDaysBeforeMonth[month] + day

ymd_to_ord(year, month, day) ==
    days_before_year(year) + days_before_month(year, month) + day

\* check_date_args: TRUE when it returns, FALSE when it throws std::out_of_range
check_date_args(year, month, day) ==
    /\ ~(year < kMinYear \/ year > kMaxYear)
    /\ ~(month < 1 \/ month > 12)
    /\ ~(day < 1 \/ day > days_in_month(year, month))

(***************************************************************************)
(* Exact integers beyond TLC's 32 bits: [neg, mag], mag the magnitude as   *)
(* base-1000 limbs, least significant first, without high zero limbs.      *)
(* They carry the program's `long` values and the mathematical values the  *)
(* program's results are compared with.                                    *)
(***************************************************************************)
Base == 10 * 10 * 10   \* three decimal digits to a limb

\* a local variable: F of the value v, v computed once
With(v, F(_)) == CHOOSE y \in {F(r) : r \in {v}} : TRUE

RECURSIVE NTrim(_)
NTrim(m) ==
    IF m = <<>> THEN m
    ELSE IF m[Len(m)] = 0 THEN NTrim(SubSeq(m, 1, Len(m) - 1)) ELSE m

NLimb(m, i) == IF i <= Len(m) THEN m[i] ELSE 0

RECURSIVE NAddFrom(_, _, _, _)
NAddFrom(a, b, i, c) ==
    IF i > Len(a) /\ i > Len(b)
    THEN (IF c = 0 THEN <<>> ELSE <<c>>)
    ELSE LET s == NLimb(a, i) + NLimb(b, i) + c
         IN  <<s % Base>> \o NAddFrom(a, b, i + 1, s \div Base)

NAdd(a, b) == NAddFrom(a, b, 1, 0)

\* a - b for a >= b
RECURSIVE NSubFrom(_, _, _, _)
NSubFrom(a, b, i, c) ==
    IF i > Len(a) THEN <<>>
    ELSE LET s == a[i] - NLimb(b, i) - c
         IN  IF s < 0 THEN <<s + Base>> \o NSubFrom(a, b, i + 1, 1)
                      ELSE <<s>> \o NSubFrom(a, b, i + 1, 0)

NSub(a, b) == NTrim(NSubFrom(a, b, 1, 0))

\* -1, 0, 1 as a < b, a = b, a > b
RECURSIVE NCmpFrom(_, _, _)
NCmpFrom(a, b, i) ==
    IF i = 0 THEN 0
    ELSE IF a[i] < b[i] THEN -1
    ELSE IF a[i] > b[i] THEN 1
    ELSE NCmpFrom(a, b, i - 1)

NCmp(a, b) ==
    IF Len(a) < Len(b) THEN -1
    ELSE IF Len(a) > Len(b) THEN 1
    ELSE NCmpFrom(a, b, Len(a))

\* a * k for a limb-sized k (0 <= k < Base)
RECURSIVE NMulLimbFrom(_, _, _, _)
NMulLimbFrom(a, k, i, c) ==
    IF i > Len(a)
    THEN (IF c = 0 THEN <<>> ELSE <<c>>)
    ELSE LET s == a[i] * k + c
         IN  <<s % Base>> \o NMulLimbFrom(a, k, i + 1, s \div Base)

NMulLimb(a, k) == NTrim(NMulLimbFrom(a, k, 1, 0))

RECURSIVE NMulFrom(_, _, _)
NMulFrom(a, b, i) ==
    IF i > Len(b) THEN <<>>
    ELSE NAdd(NMulLimb(a, b[i]),
              LET rest == NMulFrom(a, b, i + 1)
              IN  IF rest = <<>> THEN rest ELSE <<0>> \o rest)

NMul(a, b) == NTrim(NMulFrom(a, b, 1))

\* the largest d in lo..hi-1 with d * b <= cur, given lo * b <= cur < hi * b
RECURSIVE NDigit(_, _, _, _)
NDigit(cur, b, lo, hi) ==
    IF hi - lo <= 1 THEN lo
    ELSE LET mid == (lo + hi) \div 2
         IN  IF NCmp(NMulLimb(b, mid), cur) <= 0
             THEN NDigit(cur, b, mid, hi)
             ELSE NDigit(cur, b, lo, mid)

\* the quotient digit of cur by b, for cur < Base * b and b of three limbs or
\* more: the two leading limbs of b and the limbs of cur above them bracket
\* it, and NDigit finds it in the bracket
NQuotDigit(cur, b) ==
    IF Len(cur) < Len(b) THEN 0
    ELSE LET m  == Len(b)
             tb == b[m] * Base + b[m - 1]
             tc == NLimb(cur, m + 1) * Base * Base + cur[m] * Base + cur[m - 1]
             lo == tc \div (tb + 1)
             hi == (tc + 1) \div tb
         IN  NDigit(cur, b, lo, (IF hi < Base THEN hi + 1 ELSE Base))

\* schoolbook long division of the limbs i..Len(a) of a by b # 0: [q, r]
RECURSIVE NDivFrom(_, _, _)
NDivFrom(a, b, i) ==
    IF i > Len(a) THEN [q |-> <<>>, r |-> <<>>]
    ELSE With(NDivFrom(a, b, i + 1), LAMBDA p :
         With(NTrim(<<a[i]>> \o p.r), LAMBDA cur :
         With(NQuotDigit(cur, b), LAMBDA d :
             [q |-> <<d>> \o p.q, r |-> NSub(cur, NMulLimb(b, d))])))

RECURSIVE NFromNat(_)
NFromNat(n) == IF n = 0 THEN <<>> ELSE <<n % Base>> \o NFromNat(n \div Base)

RECURSIVE NToNat(_, _)
NToNat(m, i) == IF i > Len(m) THEN 0 ELSE m[i] + Base * NToNat(m, i + 1)

\* short division of the limbs i..Len(a) of a by k, 0 < k <= 2147483, so that
\* remainder * Base + limb stays below 2^31: <<quotient limbs, remainder>>
RECURSIVE NShortFrom(_, _, _)
NShortFrom(a, k, i) ==
    IF i > Len(a) THEN <<(<<>>), 0>>
    ELSE With(NShortFrom(a, k, i + 1), LAMBDA p :
         With(p[2] * Base + a[i], LAMBDA cur :
             <<(<<cur \div k>> \o p[1]), cur % k>>))

\* a divided by b # 0: [q, r], quotient and remainder
NDivMod(a, b) ==
    IF Len(b) <= 2 \/ (Len(b) = 3 /\ b[3] = 1 /\ b[2] = 0 /\ b[1] = 0)
    THEN With(NShortFrom(a, NToNat(b, 1), 1), LAMBDA p :
             [q |-> NTrim(p[1]), r |-> NFromNat(p[2])])
    ELSE IF NCmp(a, b) < 0 THEN [q |-> <<>>, r |-> a]
    ELSE With(NDivFrom(a, b, 1), LAMBDA p : [q |-> NTrim(p.q), r |-> p.r])

ZMake(neg, mag) == [neg |-> neg /\ mag # <<>>, mag |-> mag]

Z0 == [neg |-> FALSE, mag |-> <<>>]

\* a C int as an exact integer (INT_MIN has no 32-bit magnitude: go by x + 1)
ZInt(x) ==
    IF x >= 0 THEN ZMake(FALSE, NFromNat(x))
    ELSE ZMake(TRUE, NAdd(NFromNat(-(x + 1)), <<1>>))

ZNeg(x) == ZMake(~x.neg, x.mag)

ZAdd(x, y) ==
    IF x.neg = y.neg THEN ZMake(x.neg, NAdd(x.mag, y.mag))
    ELSE IF NCmp(x.mag, y.mag) >= 0 THEN ZMake(x.neg, NSub(x.mag, y.mag))
    ELSE ZMake(y.neg, NSub(y.mag, x.mag))

ZSub(x, y) == ZAdd(x, ZNeg(y))

ZMul(x, y) == ZMake(x.neg # y.neg, NMul(x.mag, y.mag))

\* -1, 0, 1 as x < y, x = y, x > y
ZCmp(x, y) ==
    IF x.neg # y.neg THEN (IF x.neg THEN -1 ELSE 1)
    ELSE IF x.neg THEN NCmp(y.mag, x.mag) ELSE NCmp(x.mag, y.mag)

ZLt(x, y) == ZCmp(x, y) < 0

ZLe(x, y) == ZCmp(x, y) <= 0

\* the quotient rounded toward zero, as C's / rounds it (y # 0)
ZTruncDiv(x, y) == ZMake(x.neg # y.neg, NDivMod(x.mag, y.mag).q)

\* the mathematical floor of x / y and the remainder with the sign of y
ZFloorDiv(x, y) ==
    With(NDivMod(x.mag, y.mag), LAMBDA p :
        IF x.neg = y.neg \/ p.r = <<>> THEN ZMake(x.neg # y.neg, p.q)
        ELSE ZMake(TRUE, NAdd(p.q, <<1>>)))

ZFloorMod(x, y) == ZSub(x, ZMul(ZFloorDiv(x, y), y))

\* 2^31, 2^32, 2^63, 2^64
ZTwo31 == ZMake(FALSE, <<648, 483, 147, 2>>)
ZTwo32 == ZMake(FALSE, <<296, 967, 294, 4>>)
ZTwo63 == ZMake(FALSE, <<808, 775, 854, 36, 372, 223, 9>>)
ZTwo64 == ZMake(FALSE, <<616, 551, 709, 73, 744, 446, 18>>)

\* whether x is a value of a 64-bit long
Fits64(x) == ZLe(ZNeg(ZTwo63), x) /\ ZLt(x, ZTwo63)

\* x reduced to 64 bits, two's complement: x - 2^64 * floor((x + 2^63) / 2^64)
Wrap64(x) ==
    IF Fits64(x) THEN x
    ELSE ZSub(x, ZMul(ZFloorDiv(ZAdd(x, ZTwo63), ZTwo64), ZTwo64))

Fits32(x) == ZLe(ZNeg(ZTwo31), x) /\ ZLt(x, ZTwo31)

\* a value of a 32-bit int as a TLC integer
ZToInt(x) ==
    IF ~x.neg THEN NToNat(x.mag, 1)
    ELSE -NToNat(NSub(x.mag, <<1>>), 1) - 1

\* static_cast<int>(long): the low 32 bits, two's complement
CastInt(x) ==
    ZToInt(IF Fits32(x) THEN x
           ELSE ZSub(ZFloorMod(ZAdd(x, ZTwo31), ZTwo32), ZTwo31))

(***************************************************************************)
(* The build.  The program's assertions are compiled in or out (NDEBUG),   *)
(* and three of its operations are undefined in C++ for some operands:     *)
(* signed overflow, division by zero, and LONG_MIN / -1.  A build resolves *)
(* each one way; an operation is modelled for every build in Builds.       *)
(*   overflow: "wrap" (two's complement) or "trap" (-ftrapv)               *)
(*   divzero:  "fault" (x86: SIGFPE) or "zero" (aarch64: quotient 0, and   *)
(*             LONG_MIN / -1 = LONG_MIN)                                   *)
(* With the assertions in, every long division is behind assert(y > 0), so *)
(* the division outcomes are told apart in the NDEBUG builds only.         *)
(***************************************************************************)
Builds ==
    {[ndebug |-> FALSE, overflow |-> "wrap", divzero |-> "fault"],
     [ndebug |-> TRUE,  overflow |-> "wrap", divzero |-> "fault"],
     [ndebug |-> TRUE,  overflow |-> "wrap", divzero |-> "zero"],
     [ndebug |-> TRUE,  overflow |-> "trap", divzero |-> "fault"]}

INT_MAX == 2147483646 + 1      \* 2^31 - 1
INT_MIN == -2147483647 - 1     \* -2^31

kUsPerMs == 1000
kUsPerSecond == 1000000
kSecondsPerDay == 86400

\* the outcome of a computation: st = "ok" and its value v, or how it ended:
\*   "out_of_range"  std::out_of_range thrown   (the spec's range error)
\*   "runtime_error" std::runtime_error thrown  (the spec's domain error)
\*   "abort"         an assertion failed
\*   "trap"          the hardware or the build trapped on undefined behaviour
Ok(v) == [st |-> "ok", v |-> v]
Fail(st) == [st |-> st, v |-> 0]

\* x + y in C int arithmetic
IntAdd(bld, x, y) ==
    IF y > 0 /\ x > INT_MAX - y
    THEN IF bld.overflow = "trap" THEN Fail("trap")
         ELSE Ok((x - INT_MAX) + (y - INT_MAX) - 2)
    ELSE IF y < 0 /\ x < INT_MIN - y
    THEN IF bld.overflow = "trap" THEN Fail("trap")
         ELSE Ok((x + INT_MAX) + (y + INT_MAX) + 2)
    ELSE Ok(x + y)

\* x - y in C int arithmetic
IntSub(bld, x, y) ==
    IF y = INT_MIN
    THEN IF x >= 0
         THEN IF bld.overflow = "trap" THEN Fail("trap") ELSE Ok(x + INT_MIN)
         ELSE Ok((x + INT_MAX) + 1)
    ELSE IntAdd(bld, x, -y)

\* SIGNED_ADD_OVERFLOWED(k, i, j): k differs in sign from both i and j
SIGNED_ADD_OVERFLOWED(k, i, j) == (k < 0) # (i < 0) /\ (k < 0) # (j < 0)

\* an exact result as the value of a C long expression
LongOf(bld, exact) ==
    IF Fits64(exact) THEN Ok(exact)
    ELSE IF bld.overflow = "trap" THEN Fail("trap")
    ELSE Ok(Wrap64(exact))

\* C's x / y on longs
LongQuot(bld, x, y) ==
    IF y = Z0
    THEN IF bld.divzero = "fault" THEN Fail("trap") ELSE Ok(Z0)
    ELSE With(ZTruncDiv(x, y), LAMBDA q :
             IF Fits64(q) THEN Ok(q)
             ELSE IF bld.divzero = "fault" THEN Fail("trap") ELSE Ok(Wrap64(q)))

\* x / y on ints for y > 0, rounded toward zero
IntQuot(x, y) == IF x >= 0 \/ x % y = 0 THEN x \div y ELSE (x \div y) + 1

\* divmod<int>(x, y, &r): [quo, r]
divmod_int(bld, x, y) ==
    IF ~bld.ndebug /\ ~(y > 0) THEN Fail("abort")
    ELSE LET quo == IntQuot(x, y)
             r   == x - quo * y
         IN  IF r < 0 THEN Ok([quo |-> quo - 1, r |-> r + y])
                      ELSE Ok([quo |-> quo, r |-> r])

\* divmod<long>(x, y, &r) for the constant divisors y > 0 it is called with
divmod(x, y) ==
    With(ZTruncDiv(x, y), LAMBDA quo :
    With(ZSub(x, ZMul(quo, y)), LAMBDA r :
        IF r.neg THEN [quo |-> ZSub(quo, ZInt(1)), r |-> ZAdd(r, y)]
                 ELSE [quo |-> quo, r |-> r]))

\* div<long>(x, y): the quotient, adjusted when the remainder is negative
div(bld, x, y) ==
    IF ~bld.ndebug /\ ~ZLt(Z0, y) THEN Fail("abort")
    ELSE With(LongQuot(bld, x, y), LAMBDA q :
         IF q.st # "ok" THEN q
         ELSE With(LongOf(bld, ZMul(q.v, y)), LAMBDA p :
              IF p.st # "ok" THEN p
              ELSE With(LongOf(bld, ZSub(x, p.v)), LAMBDA r :
                   IF r.st # "ok" THEN r
                   ELSE IF r.v.neg
                   THEN LongOf(bld, ZSub(q.v, ZInt(1)))
                   ELSE Ok(q.v))))

\* mod<long>(x, y): the remainder, y added when it is negative
mod(bld, x, y) ==
    IF ~bld.ndebug /\ ~ZLt(Z0, y) THEN Fail("abort")
    ELSE With(LongQuot(bld, x, y), LAMBDA q :
         IF q.st # "ok" THEN q
         ELSE With(LongOf(bld, ZMul(q.v, y)), LAMBDA p :
              IF p.st # "ok" THEN p
              ELSE With(LongOf(bld, ZSub(x, p.v)), LAMBDA r0 :
                   IF r0.st # "ok" THEN r0
                   ELSE With(IF r0.v.neg THEN LongOf(bld, ZAdd(r0.v, y))
                                         ELSE r0, LAMBDA r :
                        IF r.st # "ok" THEN r
                        ELSE IF ~bld.ndebug /\ ~(~r.v.neg /\ ZLt(r.v, y))
                        THEN Fail("abort")
                        ELSE r))))

\* a range check that lets every day count through
check_delta_day_range_any(days) == TRUE

\* check_delta_day_range: TRUE when it returns, FALSE when it throws
check_delta_day_range(days) == -kMaxDeltaDays <= days /\ days <= kMaxDeltaDays

\* a normalize_pair that reduces lo and drops the carry into hi
normalize_pair_no_carry(bld, hi, lo, factor) ==
    Ok([hi |-> hi, lo |-> lo % factor])

\* normalize_pair(&hi, &lo, factor): [hi, lo]
normalize_pair(bld, hi, lo, factor) ==
    IF lo < 0 \/ lo >= factor
    THEN LET dm == divmod_int(bld, lo, factor)
         IN  IF dm.st # "ok" THEN dm
             ELSE LET new_hi == IntAdd(bld, hi, dm.v.quo)
                  IN  IF new_hi.st # "ok" THEN new_hi
                      ELSE IF ~bld.ndebug
                              /\ SIGNED_ADD_OVERFLOWED(new_hi.v, hi, dm.v.quo)
                      THEN Fail("abort")
                      ELSE Ok([hi |-> new_hi.v, lo |-> dm.v.r])
    ELSE Ok([hi |-> hi, lo |-> lo])

Delta(d, s, us) == [days |-> d, seconds |-> s, microseconds |-> us]

\* normalize_d_s_us(&d, &s, &us)
normalize_d_s_us(bld, d, s, us) ==
    LET p1 == IF us < 0 \/ us >= 1000000
              THEN normalize_pair(bld, s, us, 1000000)
              ELSE Ok([hi |-> s, lo |-> us])
    IN  IF p1.st # "ok" THEN p1
        ELSE LET p2 == IF p1.v.hi < 0 \/ p1.v.hi >= 24 * 3600
                       THEN normalize_pair(bld, d, p1.v.hi, 24 * 3600)
                       ELSE Ok([hi |-> d, lo |-> p1.v.hi])
             IN  IF p2.st # "ok" THEN p2
                 ELSE Ok(Delta(p2.v.hi, p2.v.lo, p1.v.lo))

\* timedelta::timedelta(int days, int seconds, int microseconds)
timedelta3(bld, days, seconds, microseconds) ==
    LET n == normalize_d_s_us(bld, days, seconds, microseconds)
    IN  IF n.st # "ok" THEN n
        ELSE IF ~check_delta_day_range(n.v.days) THEN Fail("out_of_range")
        ELSE n

\* timedelta::delta_to_microseconds()
delta_to_microseconds(bld, t) ==
    With(LongOf(bld, ZMul(ZAdd(ZMul(ZInt(kSecondsPerDay), ZInt(t.days)),
                               ZInt(t.seconds)),
                          ZInt(kUsPerSecond))), LAMBDA prod :
        IF prod.st # "ok" THEN prod
        ELSE LongOf(bld, ZAdd(prod.v, ZInt(t.microseconds))))

\* timedelta::frommicroseconds(long us)
frommicroseconds(us) ==
    With(divmod(us, ZInt(kUsPerSecond)), LAMBDA dm1 :
    With(IF dm1.quo # Z0 THEN divmod(dm1.quo, ZInt(kSecondsPerDay))
                         ELSE [quo |-> Z0, r |-> Z0], LAMBDA dm2 :
    With([i \in 1..3 |-> CastInt(<<dm2.quo, dm2.r, dm1.r>>[i])], LAMBDA c :
        IF dm1.quo # Z0 /\ ~check_delta_day_range(c[1])
        THEN Fail("out_of_range")
        ELSE Ok(Delta(c[1], c[2], c[3])))))

\* timedelta::microseconds_to_delta(long us)
microseconds_to_delta(us) == frommicroseconds(us)

\* acc + count * factor, as std::chrono adds a coarser duration to microseconds
chrono_add(bld, acc, count, factor) ==
    IF acc.st # "ok" THEN acc
    ELSE With(LongOf(bld, ZMul(ZInt(count), factor)), LAMBDA conv :
             IF conv.st # "ok" THEN conv
             ELSE LongOf(bld, ZAdd(acc.v, conv.v)))

\* the sum of the 7-argument constructor, its terms added left to right from
\* the i-th on: terms[i] is <<count, microseconds per unit>>
RECURSIVE chrono_sum(_, _, _, _)
chrono_sum(bld, acc, terms, i) ==
    IF i > Len(terms) THEN acc
    ELSE chrono_sum(bld, chrono_add(bld, acc, terms[i][1], terms[i][2]), terms, i + 1)

\* timedelta::timedelta(int days, int seconds, int microseconds,
\*                      int milliseconds, int minutes, int hours, int weeks)
timedelta7(bld, days, seconds, microseconds, milliseconds, minutes, hours, weeks) ==
    With(ZInt(kUsPerSecond), LAMBDA second :
    With(<<<<milliseconds, ZInt(kUsPerMs)>>, <<seconds, second>>,
           <<minutes, ZMul(ZInt(60), second)>>,
           <<hours, ZMul(ZInt(3600), second)>>,
           <<days, ZMul(ZInt(86400), second)>>,
           <<weeks, ZMul(ZInt(604800), second)>> >>, LAMBDA terms :
    With(chrono_sum(bld, Ok(ZInt(microseconds)), terms, 1), LAMBDA us :
        IF us.st # "ok" THEN us ELSE frommicroseconds(us.v))))

\* timedelta::min(), max(), resolution()
timedelta_min(bld) == timedelta3(bld, -kMaxDeltaDays, 0, 0)

timedelta_max(bld) == timedelta7(bld, kMaxDeltaDays, 59, 99999, 0, 59, 23, 0)

timedelta_resolution(bld) == timedelta3(bld, 0, 0, 1)

\* timedelta::operator+(const timedelta&)
timedelta_add(bld, lhs, rhs) ==
    LET d  == IntAdd(bld, lhs.days, rhs.days)
        sc == IntAdd(bld, lhs.seconds, rhs.seconds)
        us == IntAdd(bld, lhs.microseconds, rhs.microseconds)
    IN  IF d.st # "ok" THEN d
        ELSE IF sc.st # "ok" THEN sc
        ELSE IF us.st # "ok" THEN us
        ELSE timedelta3(bld, d.v, sc.v, us.v)

\* timedelta::operator-(const timedelta&)
timedelta_sub(bld, lhs, rhs) ==
    LET d  == IntSub(bld, lhs.days, rhs.days)
        sc == IntSub(bld, lhs.seconds, rhs.seconds)
        us == IntSub(bld, lhs.microseconds, rhs.microseconds)
    IN  IF d.st # "ok" THEN d
        ELSE IF sc.st # "ok" THEN sc
        ELSE IF us.st # "ok" THEN us
        ELSE timedelta3(bld, d.v, sc.v, us.v)

\* timedelta::operator/(const timedelta&)
timedelta_div(bld, lhs, rhs) ==
    With(delta_to_microseconds(bld, rhs), LAMBDA rhs_us :
        IF rhs_us.st # "ok" THEN rhs_us
        ELSE IF rhs_us.v = Z0 THEN Fail("runtime_error")
        ELSE With(delta_to_microseconds(bld, lhs), LAMBDA lhs_us :
             IF lhs_us.st # "ok" THEN lhs_us
             ELSE With(div(bld, lhs_us.v, rhs_us.v), LAMBDA q :
                  IF q.st # "ok" THEN q ELSE microseconds_to_delta(q.v))))

\* timedelta::operator%(const timedelta&)
timedelta_mod(bld, lhs, rhs) ==
    With(delta_to_microseconds(bld, lhs), LAMBDA lhs_us :
        IF lhs_us.st # "ok" THEN lhs_us
        ELSE With(delta_to_microseconds(bld, rhs), LAMBDA rhs_us :
             IF rhs_us.st # "ok" THEN rhs_us
             ELSE With(mod(bld, lhs_us.v, rhs_us.v), LAMBDA r :
                  IF r.st # "ok" THEN r ELSE microseconds_to_delta(r.v))))

\* timedelta::operator+()
timedelta_pos(bld, t) == Ok(t)

\* a negation that negates the days and keeps the time of day
timedelta_neg_days_only(bld, t) ==
    timedelta3(bld, -t.days, t.seconds, t.microseconds)

\* timedelta::operator-()
timedelta_neg(bld, t) ==
    LET d  == IntSub(bld, 0, t.days)
        sc == IntSub(bld, 0, t.seconds)
        us == IntSub(bld, 0, t.microseconds)
    IN  IF d.st # "ok" THEN d
        ELSE IF sc.st # "ok" THEN sc
        ELSE IF us.st # "ok" THEN us
        ELSE timedelta3(bld, d.v, sc.v, us.v)

\* timedelta::operator*(int n)
timedelta_mul(bld, t, n) ==
    With(delta_to_microseconds(bld, t), LAMBDA us :
        IF us.st # "ok" THEN us
        ELSE With(LongOf(bld, ZMul(us.v, ZInt(n))), LAMBDA prod :
             IF prod.st # "ok" THEN prod ELSE microseconds_to_delta(prod.v)))

\* an operator/(int) without its test of n
timedelta_div_int_unchecked(bld, t, n) ==
    With(delta_to_microseconds(bld, t), LAMBDA us :
        IF us.st # "ok" THEN us
        ELSE With(div(bld, us.v, ZInt(kUsPerSecond)), LAMBDA q :
             IF q.st # "ok" THEN q ELSE microseconds_to_delta(q.v)))

\* timedelta::operator/(int n)
timedelta_div_int(bld, t, n) ==
    IF n = 0 THEN Fail("runtime_error")
    ELSE With(delta_to_microseconds(bld, t), LAMBDA us :
         IF us.st # "ok" THEN us
         ELSE With(div(bld, us.v, ZInt(kUsPerSecond)), LAMBDA q :
              IF q.st # "ok" THEN q ELSE microseconds_to_delta(q.v)))

\* timedelta::abs()
timedelta_abs(bld, t) == IF t.days < 0 THEN timedelta_neg(bld, t) ELSE Ok(t)

\* timedelta::total_microseconds(), total_seconds(), total_milliseconds()
total_microseconds(bld, t) == delta_to_microseconds(bld, t)

total_seconds(bld, t) ==
    With(delta_to_microseconds(bld, t), LAMBDA total_us :
        IF total_us.st # "ok" THEN total_us
        ELSE div(bld, total_us.v, ZInt(kUsPerSecond)))

total_milliseconds(bld, t) ==
    With(delta_to_microseconds(bld, t), LAMBDA total_us :
        IF total_us.st # "ok" THEN total_us
        ELSE div(bld, total_us.v, ZInt(kUsPerMs)))

\* a comparison that looks at the seconds before the days
timedelta_cmp_seconds_first(lhs, rhs) ==
    IF lhs.seconds # rhs.seconds
    THEN (IF lhs.seconds < rhs.seconds THEN -1 ELSE 1)
    ELSE IF lhs.days # rhs.days THEN (IF lhs.days < rhs.days THEN -1 ELSE 1)
    ELSE IF lhs.microseconds # rhs.microseconds
    THEN (IF lhs.microseconds < rhs.microseconds THEN -1 ELSE 1)
    ELSE 0

\* the defaulted operator<=>: member-wise, in the order the members are
\* declared (days_, seconds_, microseconds_): -1 less, 0 equal, 1 greater
timedelta_cmp(lhs, rhs) ==
    IF lhs.days # rhs.days THEN (IF lhs.days < rhs.days THEN -1 ELSE 1)
    ELSE IF lhs.seconds # rhs.seconds
    THEN (IF lhs.seconds < rhs.seconds THEN -1 ELSE 1)
    ELSE IF lhs.microseconds # rhs.microseconds
    THEN (IF lhs.microseconds < rhs.microseconds THEN -1 ELSE 1)
    ELSE 0

(***************************************************************************)
(* The calendar round trip: date::fromordinal, then date::toordinal.       *)
(***************************************************************************)
NoDate == [year |-> 0, month |-> 0, day |-> 0]

\* the ordinals tried: the first and last HeadDays days, Window days around
\* the start of every century, the last and first day of every year, and one
\* ordinal below and above the range
CalInit ==
    /\ cal_pc = "start"
    /\ \/ ordinal \in 0..HeadDays
       \/ ordinal \in (kMaxOrdinal - HeadDays + 1)..(kMaxOrdinal + 1)
       \/ \E k \in 1..(kMaxYear \div 100) :
             ordinal \in (k * DI100Y + (k \div 4) - Window + 1)
                         ..(k * DI100Y + (k \div 4) + Window)
       \/ \E y \in (kMinYear + 1)..kMaxYear :
             ordinal \in days_before_year(y)..(days_before_year(y) + 1)
    /\ ymd = NoDate
    /\ back = 0

\* date::fromordinal(ordinal)
FromOrdinal ==
    /\ cal_pc = "start"
    /\ IF ordinal < 1
       THEN /\ cal_pc' = "invalid_argument"
            /\ ymd' = ymd
       ELSE LET r == ord_to_ymd(ordinal)
            IN  IF check_date_args(r.year, r.month, r.day)
                THEN cal_pc' = "converted" /\ ymd' = r
                ELSE cal_pc' = "out_of_range" /\ ymd' = ymd
    /\ UNCHANGED <<ordinal, back, td_vars, dt_vars>>

\* date::toordinal() of the date just built
ToOrdinal ==
    /\ cal_pc = "converted"
    /\ back' = ymd_to_ord(ymd.year, ymd.month, ymd.day)
    /\ cal_pc' = "done"
    /\ UNCHANGED <<ordinal, ymd, td_vars, dt_vars>>

CalNext == FromOrdinal \/ ToOrdinal

(***************************************************************************)
(* The timedelta program: the variable da is constructed, and then either  *)
(* one public operation is applied to it (unary, by an int, an observer),  *)
(* or db is constructed and one binary operation is applied to both.  An   *)
(* operator or an observer leaves both alone; the compound assignment      *)
(* `da op= x` is `*this = *this op x`, so da changes only when the         *)
(* operator returned.  The operands tried sit at the edges of the fields'  *)
(* ranges, of the day range and of the 64-bit microsecond total, which is  *)
(* where any result of an earlier operation would sit too.                 *)
(***************************************************************************)
Zero == Delta(0, 0, 0)      \* timedelta(): the members' default initialisers

NoOut == [op |-> "none", st |-> "ok", lhs |-> Zero, rhs |-> Zero, n |-> 0,
          args |-> <<>>, v |-> Zero, num |-> Z0]

DayIn == {0, 1, -1, 106751991, -106751992, 999999999, -999999999}

\* the arguments tried for the 3-field constructor of a
CtorArgsA ==
    {<<d, sc, us>> : d \in DayIn, sc \in {0, 86399}, us \in {0, 999999}}
    \cup {<<0, sc, us>> : sc \in {0, 10, -3, 86400}, us \in {0, 1, -1, 1000000}}
    \cup {<<106751991, 14454, 775807>>, <<106751991, 14454, 775808>>,
          <<-106751992, 71945, 224192>>, <<-106751992, 71945, 224191>>,
          <<1000000000, 0, 0>>, <<999999999, 86400, 0>>, <<-999999999, 0, -1>>,
          <<INT_MAX, 86400, 0>>, <<INT_MIN, -1, 0>>, <<0, INT_MAX, INT_MAX>>,
          <<0, INT_MIN, INT_MIN>>}

\* the arguments tried for the 7-field constructor of a
CtorArgs7 ==
    {<<1, 1, 1, 1, 1, 1, 1>>, <<0, -1, 0, -1, 0, 0, 0>>,
     <<0, 0, 0, 0, 59, 23, 142857142>>, <<999999999, 59, 999999, 0, 59, 23, 0>>,
     <<106751991, 0, 0, 0, 0, 0, 0>>, <<106751992, 0, 0, 0, 0, 0, 0>>,
     <<0, 0, 0, 0, 0, 0, INT_MAX>>, <<INT_MIN, INT_MIN, INT_MIN, INT_MIN, 0, 0, 0>>}

\* the arguments tried for the 3-field constructor of b
CtorArgsB ==
    {<<0, 0, 0>>, <<0, 0, 1>>, <<0, 3, 0>>, <<0, -3, 0>>, <<1, 0, 0>>,
     <<0, 86400, 0>>, <<999999999, 86399, 999999>>, <<-999999999, 0, 0>>}

\* the int operands tried for * and /
IntIn == {0, 1, -1, 2, -3, 1000000, INT_MAX, INT_MIN}

DeltaInit ==
    /\ td_pc = "a"
    /\ da = Zero
    /\ db = Zero
    /\ out = NoOut

\* where the program stands after an operation that ended st: at `then` when
\* it returned, "thrown" when it threw, "dead" when the process was killed
After(st, then) ==
    IF st = "ok" THEN then
    ELSE IF st \in {"abort", "trap"} THEN "dead" ELSE "thrown"

\* a = timedelta(days, seconds, microseconds)
NewA3 ==
    /\ td_pc = "a"
    /\ \E args \in CtorArgsA, bld \in Builds :
          \E r \in {timedelta3(bld, args[1], args[2], args[3])} :
              /\ da' = IF r.st = "ok" THEN r.v ELSE da
              /\ out' = [NoOut EXCEPT !.op = "timedelta3", !.st = r.st,
                                      !.args = args,
                                      !.v = IF r.st = "ok" THEN r.v ELSE Zero]
              /\ td_pc' = After(r.st, "b")
    /\ UNCHANGED <<db, cal_vars, dt_vars>>

\* a = timedelta(days, seconds, microseconds, milliseconds, minutes, hours, weeks)
NewA7 ==
    /\ td_pc = "a"
    /\ \E args \in CtorArgs7, bld \in Builds :
          \E r \in {timedelta7(bld, args[1], args[2], args[3], args[4],
                              args[5], args[6], args[7])} :
              /\ da' = IF r.st = "ok" THEN r.v ELSE da
              /\ out' = [NoOut EXCEPT !.op = "timedelta7", !.st = r.st,
                                      !.args = args,
                                      !.v = IF r.st = "ok" THEN r.v ELSE Zero]
              /\ td_pc' = After(r.st, "b")
    /\ UNCHANGED <<db, cal_vars, dt_vars>>

\* a = timedelta::min(), timedelta::max() or timedelta::resolution()
NewAStatic ==
    /\ td_pc = "a"
    /\ \E which \in {"min", "max", "resolution"}, bld \in Builds :
          \E r \in {CASE which = "min" -> timedelta_min(bld)
                     [] which = "max" -> timedelta_max(bld)
                     [] OTHER -> timedelta_resolution(bld)} :
              /\ da' = IF r.st = "ok" THEN r.v ELSE da
              /\ out' = [NoOut EXCEPT !.op = which, !.st = r.st,
                                      !.v = IF r.st = "ok" THEN r.v ELSE Zero]
              /\ td_pc' = After(r.st, "b")
    /\ UNCHANGED <<db, cal_vars, dt_vars>>

\* b = timedelta(days, seconds, microseconds)
NewB3 ==
    /\ td_pc = "b"
    /\ \E args \in CtorArgsB, bld \in Builds :
          \E r \in {timedelta3(bld, args[1], args[2], args[3])} :
              /\ db' = IF r.st = "ok" THEN r.v ELSE db
              /\ out' = [NoOut EXCEPT !.op = "timedelta3", !.st = r.st,
                                      !.args = args,
                                      !.v = IF r.st = "ok" THEN r.v ELSE Zero]
              /\ td_pc' = After(r.st, "ops")
    /\ UNCHANGED <<da, cal_vars, dt_vars>>

\* the record of an operation on a (and b, and n) that ended r
OutOf(op, n, r) ==
    [NoOut EXCEPT !.op = op, !.st = r.st, !.lhs = da, !.rhs = db, !.n = n,
                  !.v = IF r.st = "ok" THEN r.v ELSE Zero]

\* the record of a long-valued observer of a that ended r
TotalOf(op, r) ==
    [NoOut EXCEPT !.op = op, !.st = r.st, !.lhs = da, !.rhs = db,
                  !.num = IF r.st = "ok" THEN r.v ELSE Z0]

\* a + b, the result a temporary
Add ==
    /\ td_pc = "ops"
    /\ \E bld \in Builds :
          \E r \in {timedelta_add(bld, da, db)} :
              /\ out' = OutOf("+", 0, r)
              /\ td_pc' = After(r.st, "done")
    /\ UNCHANGED <<da, db, cal_vars, dt_vars>>

\* a - b
Sub ==
    /\ td_pc = "ops"
    /\ \E bld \in Builds :
          \E r \in {timedelta_sub(bld, da, db)} :
              /\ out' = OutOf("-", 0, r)
              /\ td_pc' = After(r.st, "done")
    /\ UNCHANGED <<da, db, cal_vars, dt_vars>>

\* a / b
Div ==
    /\ td_pc = "ops"
    /\ \E bld \in Builds :
          \E r \in {timedelta_div(bld, da, db)} :
              /\ out' = OutOf("/", 0, r)
              /\ td_pc' = After(r.st, "done")
    /\ UNCHANGED <<da, db, cal_vars, dt_vars>>

\* a % b
Mod ==
    /\ td_pc = "ops"
    /\ \E bld \in Builds :
          \E r \in {timedelta_mod(bld, da, db)} :
              /\ out' = OutOf("%", 0, r)
              /\ td_pc' = After(r.st, "done")
    /\ UNCHANGED <<da, db, cal_vars, dt_vars>>

\* a += b, which is *this = *this + rhs: a changes when + returned
AddAssign ==
    /\ td_pc = "ops"
    /\ \E bld \in Builds :
          \E r \in {timedelta_add(bld, da, db)} :
              /\ out' = OutOf("+=", 0, r)
              /\ da' = IF r.st = "ok" THEN r.v ELSE da
              /\ td_pc' = After(r.st, "done")
    /\ UNCHANGED <<db, cal_vars, dt_vars>>

\* a -= b
SubAssign ==
    /\ td_pc = "ops"
    /\ \E bld \in Builds :
          \E r \in {timedelta_sub(bld, da, db)} :
              /\ out' = OutOf("-=", 0, r)
              /\ da' = IF r.st = "ok" THEN r.v ELSE da
              /\ td_pc' = After(r.st, "done")
    /\ UNCHANGED <<db, cal_vars, dt_vars>>

\* a /= b
DivAssign ==
    /\ td_pc = "ops"
    /\ \E bld \in Builds :
          \E r \in {timedelta_div(bld, da, db)} :
              /\ out' = OutOf("/=", 0, r)
              /\ da' = IF r.st = "ok" THEN r.v ELSE da
              /\ td_pc' = After(r.st, "done")
    /\ UNCHANGED <<db, cal_vars, dt_vars>>

\* a %= b
ModAssign ==
    /\ td_pc = "ops"
    /\ \E bld \in Builds :
          \E r \in {timedelta_mod(bld, da, db)} :
              /\ out' = OutOf("%=", 0, r)
              /\ da' = IF r.st = "ok" THEN r.v ELSE da
              /\ td_pc' = After(r.st, "done")
    /\ UNCHANGED <<db, cal_vars, dt_vars>>

\* +a
Pos ==
    /\ td_pc = "b"
    /\ \E bld \in Builds :
          \E r \in {timedelta_pos(bld, da)} :
              /\ out' = OutOf("+a", 0, r)
              /\ td_pc' = After(r.st, "done")
    /\ UNCHANGED <<da, db, cal_vars, dt_vars>>

\* -a
Neg ==
    /\ td_pc = "b"
    /\ \E bld \in Builds :
          \E r \in {timedelta_neg(bld, da)} :
              /\ out' = OutOf("-a", 0, r)
              /\ td_pc' = After(r.st, "done")
    /\ UNCHANGED <<da, db, cal_vars, dt_vars>>

\* a.abs()
Abs ==
    /\ td_pc = "b"
    /\ \E bld \in Builds :
          \E r \in {timedelta_abs(bld, da)} :
              /\ out' = OutOf("abs", 0, r)
              /\ td_pc' = After(r.st, "done")
    /\ UNCHANGED <<da, db, cal_vars, dt_vars>>

\* a * n
Mul ==
    /\ td_pc = "b"
    /\ \E n \in IntIn, bld \in Builds :
          \E r \in {timedelta_mul(bld, da, n)} :
              /\ out' = OutOf("*n", n, r)
              /\ td_pc' = After(r.st, "done")
    /\ UNCHANGED <<da, db, cal_vars, dt_vars>>

\* a / n
DivInt ==
    /\ td_pc = "b"
    /\ \E n \in IntIn, bld \in Builds :
          \E r \in {timedelta_div_int(bld, da, n)} :
              /\ out' = OutOf("/n", n, r)
              /\ td_pc' = After(r.st, "done")
    /\ UNCHANGED <<da, db, cal_vars, dt_vars>>

\* a *= n
MulAssign ==
    /\ td_pc = "b"
    /\ \E n \in IntIn, bld \in Builds :
          \E r \in {timedelta_mul(bld, da, n)} :
              /\ out' = OutOf("*=n", n, r)
              /\ da' = IF r.st = "ok" THEN r.v ELSE da
              /\ td_pc' = After(r.st, "done")
    /\ UNCHANGED <<db, cal_vars, dt_vars>>

\* a /= n
DivIntAssign ==
    /\ td_pc = "b"
    /\ \E n \in IntIn, bld \in Builds :
          \E r \in {timedelta_div_int(bld, da, n)} :
              /\ out' = OutOf("/=n", n, r)
              /\ da' = IF r.st = "ok" THEN r.v ELSE da
              /\ td_pc' = After(r.st, "done")
    /\ UNCHANGED <<db, cal_vars, dt_vars>>

\* a.total_microseconds()
TotalMicroseconds ==
    /\ td_pc = "b"
    /\ \E bld \in Builds :
          \E r \in {total_microseconds(bld, da)} :
              /\ out' = TotalOf("total_microseconds", r)
              /\ td_pc' = After(r.st, "done")
    /\ UNCHANGED <<da, db, cal_vars, dt_vars>>

\* a.total_seconds()
TotalSeconds ==
    /\ td_pc = "b"
    /\ \E bld \in Builds :
          \E r \in {total_seconds(bld, da)} :
              /\ out' = TotalOf("total_seconds", r)
              /\ td_pc' = After(r.st, "done")
    /\ UNCHANGED <<da, db, cal_vars, dt_vars>>

\* a.total_milliseconds()
TotalMilliseconds ==
    /\ td_pc = "b"
    /\ \E bld \in Builds :
          \E r \in {total_milliseconds(bld, da)} :
              /\ out' = TotalOf("total_milliseconds", r)
              /\ td_pc' = After(r.st, "done")
    /\ UNCHANGED <<da, db, cal_vars, dt_vars>>

\* a <=> b: n is -1, 0 or 1
Compare ==
    /\ td_pc = "ops"
    /\ out' = [NoOut EXCEPT !.op = "<=>", !.lhs = da, !.rhs = db,
                            !.n = timedelta_cmp(da, db)]
    /\ td_pc' = "done"
    /\ UNCHANGED <<da, db, cal_vars, dt_vars>>

\* b <=> a
CompareBack ==
    /\ td_pc = "ops"
    /\ out' = [NoOut EXCEPT !.op = "<=>", !.lhs = db, !.rhs = da,
                            !.n = timedelta_cmp(db, da)]
    /\ td_pc' = "done"
    /\ UNCHANGED <<da, db, cal_vars, dt_vars>>

DeltaNext ==
    \/ NewA3 \/ NewA7 \/ NewAStatic \/ NewB3
    \/ Add \/ Sub \/ Div \/ Mod
    \/ AddAssign \/ SubAssign \/ DivAssign \/ ModAssign
    \/ Pos \/ Neg \/ Abs
    \/ Mul \/ DivInt \/ MulAssign \/ DivIntAssign
    \/ TotalMicroseconds \/ TotalSeconds \/ TotalMilliseconds
    \/ Compare \/ CompareBack

\* the calendar round trip alone, and the timedelta program alone
InitCalendar == CalInit /\ DeltaInit /\ DateIdle

SpecCalendar == InitCalendar /\ [][CalNext]_vars

InitDelta ==
    /\ DeltaInit
    /\ cal_pc = "start" /\ ordinal = 1 /\ ymd = NoDate /\ back = 0
    /\ DateIdle

SpecDelta == InitDelta /\ [][DeltaNext]_vars

(***************************************************************************)
(* date and datetime: construction and arithmetic.                         *)
(***************************************************************************)
\* check_time_args: TRUE when it returns, FALSE when it throws std::out_of_range
check_time_args(h, m, s, us) ==
    /\ ~(h < 0 \/ h > 23)
    /\ ~(m < 0 \/ m > 59)
    /\ ~(s < 0 \/ s > 59)
    /\ ~(us < 0 \/ us > 999999)

\* date::set_fileds, read back by year(), month(), day(): data_ keeps two
\* bytes of the year and one byte of the month and of the day
set_fileds(year, month, day) ==
    [year |-> year % 65536, month |-> month % 256, day |-> day % 256]

\* the setters of datetime, read back by its accessors: one byte for each of
\* hour, minute, second and three bytes of the microsecond
set_datetime(year, month, day, hour, minute, second, usecond) ==
    [year |-> year % 65536, month |-> month % 256, day |-> day % 256,
     hour |-> hour % 256, minute |-> minute % 256, second |-> second % 256,
     microsecond |-> usecond % 16777216]

\* a date constructor that takes any day of 1..31 in any month
date3_any_day(year, month, day) ==
    IF year >= kMinYear /\ year <= kMaxYear /\ month >= 1 /\ month <= 12
       /\ day >= 1 /\ day <= 31
    THEN Ok(set_fileds(year, month, day))
    ELSE Fail("out_of_range")

\* date::date(int year, int month, int day)
date3(year, month, day) ==
    IF check_date_args(year, month, day)
    THEN Ok(set_fileds(year, month, day))
    ELSE Fail("out_of_range")

\* date::date(int year, int month, int day, NonCheckTag)
date_unchecked(year, month, day) == Ok(set_fileds(year, month, day))

\* datetime::datetime(int year, ..., int usecond)
datetime7(year, month, day, hour, minute, second, usecond) ==
    IF ~check_date_args(year, month, day) THEN Fail("out_of_range")
    ELSE IF ~check_time_args(hour, minute, second, usecond)
    THEN Fail("out_of_range")
    ELSE Ok(set_datetime(year, month, day, hour, minute, second, usecond))

\* date::fromordinal(int ordinal)
date_fromordinal(ord) ==
    IF ord < 1 THEN Fail("invalid_argument")
    ELSE With(ord_to_ymd(ord), LAMBDA r : date3(r.year, r.month, r.day))

\* date::toordinal(), datetime::toordinal()
toordinal(d) == ymd_to_ord(d.year, d.month, d.day)

\* normalize_y_m_d(&y, &m, &d): [rc, y, m, d]
normalize_y_m_d(bld, y, m, d) ==
    IF ~bld.ndebug /\ ~(1 <= m /\ m <= 12) THEN Fail("abort")
    ELSE With(days_in_month(y, m), LAMBDA dim :
         With(IF d < 1 \/ d > dim
              THEN IF d = 0
                   THEN IF m - 1 > 0
                        THEN [ret |-> FALSE, y |-> y, m |-> m - 1,
                              d |-> days_in_month(y, m - 1)]
                        ELSE [ret |-> FALSE, y |-> y - 1, m |-> 12, d |-> 31]
                   ELSE IF d = dim + 1
                   THEN IF m + 1 > 12
                        THEN [ret |-> FALSE, y |-> y + 1, m |-> 1, d |-> 1]
                        ELSE [ret |-> FALSE, y |-> y, m |-> m + 1, d |-> 1]
                   ELSE With(ymd_to_ord(y, m, 1) + d - 1, LAMBDA ord :
                        IF ord < 1 \/ ord > kMaxOrdinal
                        THEN [ret |-> TRUE, rc |-> -1, y |-> y, m |-> m, d |-> d]
                        ELSE With(ord_to_ymd(ord), LAMBDA r :
                             [ret |-> TRUE, rc |-> 0, y |-> r.year,
                              m |-> r.month, d |-> r.day]))
              ELSE [ret |-> FALSE, y |-> y, m |-> m, d |-> d], LAMBDA s :
         IF s.ret THEN Ok([rc |-> s.rc, y |-> s.y, m |-> s.m, d |-> s.d])
         ELSE IF ~bld.ndebug /\ ~(s.m > 0 /\ s.d > 0) THEN Fail("abort")
         ELSE Ok([rc |-> IF kMinYear <= s.y /\ s.y <= kMaxYear THEN 0 ELSE -1,
                  y |-> s.y, m |-> s.m, d |-> s.d])))

\* normalize_date(&year, &month, &day)
normalize_date(bld, year, month, day) == normalize_y_m_d(bld, year, month, day)

\* normalize_datetime(&year, ..., &microsecond): [rc, y, m, d, h, min, s, us]
normalize_datetime(bld, year, month, day, hour, minute, second, microsecond) ==
    With(normalize_pair(bld, second, microsecond, 1000000), LAMBDA p1 :
    IF p1.st # "ok" THEN p1 ELSE
    With(normalize_pair(bld, minute, p1.v.hi, 60), LAMBDA p2 :
    IF p2.st # "ok" THEN p2 ELSE
    With(normalize_pair(bld, hour, p2.v.hi, 60), LAMBDA p3 :
    IF p3.st # "ok" THEN p3 ELSE
    With(normalize_pair(bld, day, p3.v.hi, 24), LAMBDA p4 :
    IF p4.st # "ok" THEN p4 ELSE
    With(normalize_date(bld, year, month, p4.v.hi), LAMBDA n :
    IF n.st # "ok" THEN n
    ELSE Ok([rc |-> n.v.rc, y |-> n.v.y, m |-> n.v.m, d |-> n.v.d,
             h |-> p4.v.lo, min |-> p3.v.lo, s |-> p2.v.lo,
             us |-> p1.v.lo]))))))

\* timedelta::timedelta(int days, int seconds, int microseconds, NonNormTag)
timedelta_nonnorm(days, seconds, microseconds) ==
    IF check_delta_day_range(days) THEN Ok(Delta(days, seconds, microseconds))
    ELSE Fail("out_of_range")

\* date::operator+ with the day count of the timedelta left out
date_add_no_days(bld, self, delta) ==
    With(normalize_date(bld, self.year, self.month, self.day), LAMBDA n :
        IF n.st # "ok" THEN n
        ELSE IF n.v.rc >= 0 THEN date_unchecked(n.v.y, n.v.m, n.v.d)
        ELSE Fail("out_of_range"))

\* date::operator+(const timedelta& delta)
date_add(bld, self, delta) ==
    With(normalize_date(bld, self.year, self.month, self.day + delta.days),
         LAMBDA n :
        IF n.st # "ok" THEN n
        ELSE IF n.v.rc >= 0 THEN date_unchecked(n.v.y, n.v.m, n.v.d)
        ELSE Fail("out_of_range"))

\* date::operator-(const timedelta& delta)
date_sub(bld, self, delta) ==
    With(normalize_date(bld, self.year, self.month, self.day - delta.days),
         LAMBDA n :
        IF n.st # "ok" THEN n
        ELSE IF n.v.rc >= 0 THEN date_unchecked(n.v.y, n.v.m, n.v.d)
        ELSE Fail("out_of_range"))

\* date::operator-(const date& rhs) with the operands exchanged
date_diff_swapped(lhs, rhs) ==
    timedelta_nonnorm(toordinal(rhs) - toordinal(lhs), 0, 0)

\* date::operator-(const date& rhs)
date_diff(lhs, rhs) ==
    timedelta_nonnorm(toordinal(lhs) - toordinal(rhs), 0, 0)

\* datetime::operator+ that drops the microseconds of the timedelta
datetime_add_no_us(bld, self, delta) ==
    With(normalize_datetime(bld, self.year, self.month, self.day + delta.days,
                            self.hour, self.minute,
                            self.second + delta.seconds, self.microsecond),
         LAMBDA n :
        IF n.st # "ok" THEN n
        ELSE IF n.v.rc < 0 THEN Fail("out_of_range")
        ELSE datetime7(n.v.y, n.v.m, n.v.d, n.v.h, n.v.min, n.v.s, n.v.us))

\* datetime::operator+(const timedelta& delta)
datetime_add(bld, self, delta) ==
    With(normalize_datetime(bld, self.year, self.month, self.day + delta.days,
                            self.hour, self.minute,
                            self.second + delta.seconds,
                            self.microsecond + delta.microseconds),
         LAMBDA n :
        IF n.st # "ok" THEN n
        ELSE IF n.v.rc < 0 THEN Fail("out_of_range")
        ELSE datetime7(n.v.y, n.v.m, n.v.d, n.v.h, n.v.min, n.v.s, n.v.us))

\* datetime::operator-(const timedelta& delta)
datetime_sub(bld, self, delta) ==
    With(normalize_datetime(bld, self.year, self.month, self.day - delta.days,
                            self.hour, self.minute,
                            self.second - delta.seconds,
                            self.microsecond - delta.microseconds),
         LAMBDA n :
        IF n.st # "ok" THEN n
        ELSE IF n.v.rc < 0 THEN Fail("out_of_range")
        ELSE datetime7(n.v.y, n.v.m, n.v.d, n.v.h, n.v.min, n.v.s, n.v.us))

\* datetime::operator-(const datetime& rhs)
datetime_diff(bld, lhs, rhs) ==
    timedelta3(bld, toordinal(lhs) - toordinal(rhs),
               (lhs.hour - rhs.hour) * 3600 + (lhs.minute - rhs.minute) * 60
               + (lhs.second - rhs.second),
               lhs.microsecond - rhs.microsecond)

\* the years, months and days tried for the constructors
YearIn == {0, 1, 4, 100, 400, 2021, 2023, 2024, 9999, 10000}

MonthIn == {0, 1, 2, 3, 12, 13}

MonthDayIn == {0, 1, 28, 29, 30, 31, 32}

\* the arguments tried for date(year, month, day); the last three are equal
\* to valid dates in the low bytes that data_ keeps
DateArgs ==
    {<<y, m, d>> : y \in YearIn, m \in MonthIn, d \in MonthDayIn}
    \cup {<<2021, 8, 1>>, <<2021, 8, 31>>, <<-1, 1, 1>>,
          <<67557, 1, 1>>, <<2021, 257, 1>>, <<2021, 1, 257>>}

\* the time fields tried for datetime(year, ..., usecond)
TimeArgs ==
    {<<0, 0, 0, 0>>, <<23, 59, 59, 999999>>, <<12, 30, 45, 123456>>,
     <<24, 0, 0, 0>>, <<-1, 0, 0, 0>>, <<0, 60, 0, 0>>, <<0, -1, 0, 0>>,
     <<0, 0, 60, 0>>, <<0, 0, -1, 0>>, <<0, 0, 0, 1000000>>,
     <<0, 0, 0, -1>>, <<256, 0, 0, 0>>, <<0, 0, 0, 16777216>>}

\* the date fields tried for datetime(year, ..., usecond)
DatetimeDateArgs ==
    {<<1, 1, 1>>, <<9999, 12, 31>>, <<2024, 2, 29>>, <<2023, 2, 28>>,
     <<2021, 8, 31>>, <<2024, 12, 31>>, <<2024, 3, 1>>, <<2023, 2, 29>>,
     <<0, 1, 1>>, <<2021, 13, 1>>}

\* the timedelta operands tried: normalized, as every constructor leaves them
DeltaDaysIn ==
    {0, 1, -1, 2, 27, 31, -31, 365, 366, -366, 36524, 146097, 737000,
     3652058, -3652058, 3652059, 999999999, -999999999}

DeltaIn ==
    {Delta(d, sm[1], sm[2]) :
        d \in DeltaDaysIn,
        sm \in {<<0, 0>>, <<0, 1>>, <<1, 0>>, <<43200, 500000>>,
                <<86399, 999999>>}}

\* the dates a second operand is taken from
OtherDates ==
    {set_fileds(a[1], a[2], a[3]) :
        a \in {x \in DateArgs : check_date_args(x[1], x[2], x[3])}}

\* the datetimes a second operand is taken from
OtherDatetimes ==
    {set_datetime(a[1], a[2], a[3], b[1], b[2], b[3], b[4]) :
        a \in {x \in DatetimeDateArgs : check_date_args(x[1], x[2], x[3])},
        b \in {x \in TimeArgs : check_time_args(x[1], x[2], x[3], x[4])}}

\* no operation yet
NoDateOut == [cls |-> "none", op |-> "none", st |-> "ok", v |-> 0]

DateInit ==
    /\ dt_pc = "start"
    /\ dt_in = <<>>
    /\ dt_a = <<>>
    /\ dt_out = NoDateOut

\* what an operation leaves: the class and the name of the operation, how it
\* ended and what it returned
DateOut(cls, op, r) == [cls |-> cls, op |-> op, st |-> r.st, v |-> r.v]

\* a = date(year, month, day)
NewDate ==
    /\ dt_pc = "start"
    /\ \E a \in DateArgs :
          \E r \in {date3(a[1], a[2], a[3])} :
              /\ dt_in' = a
              /\ dt_out' = DateOut("date", "new", r)
              /\ dt_a' = IF r.st = "ok" THEN r.v ELSE dt_a
              /\ dt_pc' = After(r.st, "date")
    /\ UNCHANGED <<cal_vars, td_vars>>

\* a = datetime(year, month, day, hour, minute, second, usecond)
NewDatetime ==
    /\ dt_pc = "start"
    /\ \E a \in DatetimeDateArgs, b \in TimeArgs :
          \E r \in {datetime7(a[1], a[2], a[3], b[1], b[2], b[3], b[4])} :
              /\ dt_in' = a \o b
              /\ dt_out' = DateOut("datetime", "new", r)
              /\ dt_a' = IF r.st = "ok" THEN r.v ELSE dt_a
              /\ dt_pc' = After(r.st, "datetime")
    /\ UNCHANGED <<cal_vars, td_vars>>

\* a + t
DateAdd ==
    /\ dt_pc = "date"
    /\ \E bld \in Builds, t \in DeltaIn :
          \E r \in {date_add(bld, dt_a, t)} :
              /\ dt_in' = <<dt_a, t>>
              /\ dt_out' = DateOut("date", "+", r)
              /\ dt_pc' = After(r.st, "done")
    /\ UNCHANGED <<dt_a, cal_vars, td_vars>>

\* a - t
DateSub ==
    /\ dt_pc = "date"
    /\ \E bld \in Builds, t \in DeltaIn :
          \E r \in {date_sub(bld, dt_a, t)} :
              /\ dt_in' = <<dt_a, t>>
              /\ dt_out' = DateOut("date", "-", r)
              /\ dt_pc' = After(r.st, "done")
    /\ UNCHANGED <<dt_a, cal_vars, td_vars>>

\* a += t: date::operator+=
DateAddAssign ==
    /\ dt_pc = "date"
    /\ \E bld \in Builds, t \in DeltaIn :
          \E r \in {date_add(bld, dt_a, t)} :
              /\ dt_in' = <<dt_a, t>>
              /\ dt_out' = DateOut("date", "+=", r)
              /\ dt_a' = IF r.st = "ok" THEN r.v ELSE dt_a
              /\ dt_pc' = After(r.st, "done")
    /\ UNCHANGED <<cal_vars, td_vars>>

\* a -= t: date::operator-=
DateSubAssign ==
    /\ dt_pc = "date"
    /\ \E bld \in Builds, t \in DeltaIn :
          \E r \in {date_sub(bld, dt_a, t)} :
              /\ dt_in' = <<dt_a, t>>
              /\ dt_out' = DateOut("date", "-=", r)
              /\ dt_a' = IF r.st = "ok" THEN r.v ELSE dt_a
              /\ dt_pc' = After(r.st, "done")
    /\ UNCHANGED <<cal_vars, td_vars>>

\* a - b for a second date b
DateDiff ==
    /\ dt_pc = "date"
    /\ \E b \in OtherDates :
          \E r \in {date_diff(dt_a, b)} :
              /\ dt_in' = <<dt_a, b>>
              /\ dt_out' = DateOut("date", "diff", r)
              /\ dt_pc' = After(r.st, "done")
    /\ UNCHANGED <<dt_a, cal_vars, td_vars>>

\* a + t for a datetime a
DatetimeAdd ==
    /\ dt_pc = "datetime"
    /\ \E bld \in Builds, t \in DeltaIn :
          \E r \in {datetime_add(bld, dt_a, t)} :
              /\ dt_in' = <<dt_a, t>>
              /\ dt_out' = DateOut("datetime", "+", r)
              /\ dt_pc' = After(r.st, "done")
    /\ UNCHANGED <<dt_a, cal_vars, td_vars>>

\* a - t for a datetime a
DatetimeSub ==
    /\ dt_pc = "datetime"
    /\ \E bld \in Builds, t \in DeltaIn :
          \E r \in {datetime_sub(bld, dt_a, t)} :
              /\ dt_in' = <<dt_a, t>>
              /\ dt_out' = DateOut("datetime", "-", r)
              /\ dt_pc' = After(r.st, "done")
    /\ UNCHANGED <<dt_a, cal_vars, td_vars>>

\* a += t: datetime::operator+=
DatetimeAddAssign ==
    /\ dt_pc = "datetime"
    /\ \E bld \in Builds, t \in DeltaIn :
          \E r \in {datetime_add(bld, dt_a, t)} :
              /\ dt_in' = <<dt_a, t>>
              /\ dt_out' = DateOut("datetime", "+=", r)
              /\ dt_a' = IF r.st = "ok" THEN r.v ELSE dt_a
              /\ dt_pc' = After(r.st, "done")
    /\ UNCHANGED <<cal_vars, td_vars>>

\* a -= t: datetime::operator-=
DatetimeSubAssign ==
    /\ dt_pc = "datetime"
    /\ \E bld \in Builds, t \in DeltaIn :
          \E r \in {datetime_sub(bld, dt_a, t)} :
              /\ dt_in' = <<dt_a, t>>
              /\ dt_out' = DateOut("datetime", "-=", r)
              /\ dt_a' = IF r.st = "ok" THEN r.v ELSE dt_a
              /\ dt_pc' = After(r.st, "done")
    /\ UNCHANGED <<cal_vars, td_vars>>

\* a - b for a second datetime b
DatetimeDiff ==
    /\ dt_pc = "datetime"
    /\ \E bld \in Builds, b \in OtherDatetimes :
          \E r \in {datetime_diff(bld, dt_a, b)} :
              /\ dt_in' = <<dt_a, b>>
              /\ dt_out' = DateOut("datetime", "diff", r)
              /\ dt_pc' = After(r.st, "done")
    /\ UNCHANGED <<dt_a, cal_vars, td_vars>>

DateNext ==
    \/ NewDate \/ NewDatetime
    \/ DateAdd \/ DateSub \/ DateAddAssign \/ DateSubAssign \/ DateDiff
    \/ DatetimeAdd \/ DatetimeSub \/ DatetimeAddAssign \/ DatetimeSubAssign
    \/ DatetimeDiff

\* the calendar round trip and the timedelta program before they start
OthersIdle ==
    /\ cal_pc = "idle" /\ ordinal = 1 /\ ymd = NoDate /\ back = 0
    /\ td_pc = "idle" /\ da = Zero /\ db = Zero /\ out = NoOut

InitDate == DateInit /\ OthersIdle

SpecDate == InitDate /\ [][DateNext]_vars

(***************************************************************************)
(* C1: for every ordinal o in [1, 3652059], date::fromordinal(o) succeeds  *)
(* with a valid (year, month, day): 1 <= year <= 9999, 1 <= month <= 12,   *)
(* 1 <= day <= days_in_month(year, month); and its toordinal() is o again. *)
(***************************************************************************)
C1_OrdinalRoundTrip ==
    (ordinal >= 1 /\ ordinal <= kMaxOrdinal) =>
        /\ cal_pc \in {"start", "converted", "done"}
        /\ cal_pc \in {"converted", "done"} =>
              /\ 1 <= ymd.year /\ ymd.year <= 9999
              /\ 1 <= ymd.month /\ ymd.month <= 12
              /\ 1 <= ymd.day
              /\ ymd.day <= (IF ymd.month = 2
                             THEN (IF (ymd.year % 4 = 0 /\ ymd.year % 100 # 0)
                                      \/ ymd.year % 400 = 0 THEN 29 ELSE 28)
                             ELSE IF ymd.month \in {4, 6, 9, 11} THEN 30 ELSE 31)
        /\ cal_pc = "done" => back = ordinal

\* the last day, 9999-12-31, converted and back: ordinal 3652059
C1_Witness ==
    /\ cal_pc = "done"
    /\ ordinal = kMaxOrdinal
    /\ ymd = [year |-> 9999, month |-> 12, day |-> 31]
    /\ back = 3652059

(***************************************************************************)
(* What the timedelta claims are measured against: the mathematical value  *)
(* of a timedelta in microseconds, computed in exact integers.             *)
(***************************************************************************)
ExactTotal(t) ==
    ZAdd(ZMul(ZAdd(ZMul(ZInt(t.days), ZInt(86400)), ZInt(t.seconds)),
              ZInt(1000000)),
         ZInt(t.microseconds))

ExactUsPerDay == ZMul(ZInt(86400), ZInt(1000000))

\* whether an exact microsecond count has its days within the timedelta range
InDayRange(x) ==
    /\ ZLe(ZInt(-999999999), ZFloorDiv(x, ExactUsPerDay))
    /\ ZLe(ZFloorDiv(x, ExactUsPerDay), ZInt(999999999))

Normalized(t) ==
    /\ 0 <= t.seconds /\ t.seconds < 86400
    /\ 0 <= t.microseconds /\ t.microseconds < 1000000
    /\ -999999999 <= t.days /\ t.days <= 999999999

(***************************************************************************)
(* C2: every timedelta a public operation leaves behind or returns without *)
(* an error (the constructors, min, max, +, -, unary -, * int, / int,      *)
(* / timedelta, % timedelta, abs and the compound assignments) has         *)
(* 0 <= seconds < 86400, 0 <= microseconds < 1000000 and days within       *)
(* [-999999999, 999999999].                                                *)
(***************************************************************************)
C2_Normalized ==
    /\ Normalized(da)
    /\ Normalized(db)
    /\ out.st = "ok" => Normalized(out.v)

\* timedelta(0, -3, -1) is built as -1 day, 86396 s, 999999 us
C2_Witness ==
    /\ out.op = "timedelta3" /\ out.args = <<0, -3, -1>> /\ out.st = "ok"
    /\ td_pc = "b"
    /\ da = Delta(-1, 86396, 999999)

C4_MulIsExact ==
    (out.op \in {"*n", "*=n"} /\ out.st = "ok") =>
        ExactTotal(out.v) = ZMul(ExactTotal(out.lhs), ZInt(out.n))

(***************************************************************************)
(* C5: for every normalized timedelta with days in [-999999999, 999999999] *)
(* total_microseconds() returns (days * 86400 + seconds) * 1000000 +       *)
(* microseconds, and total_seconds() and total_milliseconds() the floor of *)
(* that value by 1000000 and by 1000.                                      *)
(***************************************************************************)
C5_TotalsAreExact ==
    /\ out.op = "total_microseconds" =>
          out.st = "ok" /\ out.num = ExactTotal(out.lhs)
    /\ out.op = "total_seconds" =>
          /\ out.st = "ok"
          /\ out.num = ZFloorDiv(ExactTotal(out.lhs), ZInt(1000000))
    /\ out.op = "total_milliseconds" =>
          /\ out.st = "ok"
          /\ out.num = ZFloorDiv(ExactTotal(out.lhs), ZInt(1000))

(***************************************************************************)
(* C6: for all normalized a and b, a + b and a - b (and +=, -=) return the *)
(* normalized timedelta whose total microseconds are the exact sum or      *)
(* difference when its days lie in [-999999999, 999999999], and fail with  *)
(* a range error otherwise: in every build, so no int intermediate         *)
(* overflows, traps or trips the carry assertion.                          *)
(***************************************************************************)
C6_AddSubExact ==
    out.op \in {"+", "+=", "-", "-="} =>
        \E exact \in {IF out.op \in {"+", "+="}
                      THEN ZAdd(ExactTotal(out.lhs), ExactTotal(out.rhs))
                      ELSE ZSub(ExactTotal(out.lhs), ExactTotal(out.rhs))} :
            IF InDayRange(exact)
            THEN /\ out.st = "ok"
                 /\ Normalized(out.v)
                 /\ ExactTotal(out.v) = exact
            ELSE out.st = "out_of_range"

\* 86399.999999 s + 1 us carries through both fields into one day
C6_Witness ==
    /\ out.op = "+" /\ out.st = "ok"
    /\ out.lhs = Delta(0, 86399, 999999) /\ out.rhs = Delta(0, 0, 1)
    /\ out.v = Delta(1, 0, 0)

(***************************************************************************)
(* C7: d / 0 and d / z for the zero timedelta z fail with a domain error   *)
(* (std::runtime_error) and produce no value, and d /= 0, d /= z leave d   *)
(* as it was.                                                              *)
(***************************************************************************)
C7_DivByZero ==
    ((out.op \in {"/n", "/=n"} /\ out.n = 0)
        \/ (out.op \in {"/", "/="} /\ out.rhs = Zero)) =>
        /\ out.st = "runtime_error"
        /\ td_pc = "thrown"
        /\ out.v = Zero
        /\ da = out.lhs

\* the largest timedelta, divided in place by the int 0
C7_Witness ==
    /\ out.op = "/=n" /\ out.n = 0 /\ out.st = "runtime_error"
    /\ out.lhs = Delta(999999999, 86399, 999999)
    /\ da = Delta(999999999, 86399, 999999)

(***************************************************************************)
(* C8: d % z for the zero timedelta z (and d %= z) fails with a domain     *)
(* error, std::runtime_error, as d / z does.                               *)
(***************************************************************************)
C8_ModByZero ==
    (out.op \in {"%", "%="} /\ out.rhs = Zero) => out.st = "runtime_error"

(***************************************************************************)
(* C9: for all a and non-zero b, negative b included, a / b returns the    *)
(* timedelta of floor(total(a) / total(b)) microseconds and a % b the      *)
(* timedelta of total(a) - floor(total(a) / total(b)) * total(b), the      *)
(* remainder with the sign of b; stated here for the a and b whose total   *)
(* microseconds fit a 64-bit long.                                         *)
(***************************************************************************)
C9_FloorDivMod ==
    (/\ out.op \in {"/", "/=", "%", "%="}
     /\ out.rhs # Zero
     /\ Fits64(ExactTotal(out.lhs)) /\ Fits64(ExactTotal(out.rhs))) =>
        /\ out.st = "ok"
        /\ ExactTotal(out.v) =
              IF out.op \in {"/", "/="}
              THEN ZFloorDiv(ExactTotal(out.lhs), ExactTotal(out.rhs))
              ELSE ZFloorMod(ExactTotal(out.lhs), ExactTotal(out.rhs))

(***************************************************************************)
(* C10: for all timedeltas a and b the program builds, a <=> b orders them *)
(* as their exact total microseconds are ordered: less, equal or greater   *)
(* exactly when total(a) is less than, equal to or greater than total(b).  *)
(***************************************************************************)
C10_CompareIsTotalOrder ==
    out.op = "<=>" =>
        /\ out.n = ZCmp(ExactTotal(out.lhs), ExactTotal(out.rhs))
        /\ (out.n = 0) = (out.lhs = out.rhs)

\* -3 s, stored as -1 day and 86397 s, is less than the zero timedelta
C10_Witness ==
    /\ out.op = "<=>" /\ td_pc = "done"
    /\ out.lhs = Delta(-1, 86397, 0) /\ out.rhs = Zero
    /\ out.n = -1

(***************************************************************************)
(* The ISO calendar of a date.                                             *)
(***************************************************************************)
\* x % y in C for y > 0: the remainder has the sign of x
IntRem(x, y) == x - IntQuot(x, y) * y

\* weekday(year, month, day) for a valid date: 0 is Monday, 6 is Sunday
weekday(year, month, day) == (ymd_to_ord(year, month, day) + 6) % 7

\* date::isoweekday()
isoweekday(d) == weekday(d.year, d.month, d.day) + 1

\* ymd_to_ord(year, 1, 1) as C computes it for any year: days_before_year
\* asserts year >= 1 and divides toward zero
first_day_of(bld, year) ==
    IF ~bld.ndebug /\ ~(year >= 1) THEN Fail("abort")
    ELSE Ok((year - 1) * 365 + IntQuot(year - 1, 4) - IntQuot(year - 1, 100)
            + IntQuot(year - 1, 400) + days_before_month(year, 1) + 1)

\* iso_week1_monday with the week 1 of a year always begun on or before
\* January 1
iso_week1_monday_early(bld, year) ==
    With(first_day_of(bld, year), LAMBDA f :
        IF f.st # "ok" THEN f
        ELSE Ok(f.v - IntRem(f.v + 6, 7)))

\* iso_week1_monday(year)
iso_week1_monday(bld, year) ==
    With(first_day_of(bld, year), LAMBDA f :
        IF f.st # "ok" THEN f
        ELSE With(IntRem(f.v + 6, 7), LAMBDA first_weekday :
             IF first_weekday > 3
             THEN Ok(f.v - first_weekday + 7)
             ELSE Ok(f.v - first_weekday)))

IsoCalendarDate(y, w, wd) == [year |-> y, week |-> w, weekday |-> wd]

\* date::fromisocalendar that takes week 53 in every year
fromisocalendar_any_53(bld, iso_calendar) ==
    IF iso_calendar.year < kMinYear \/ iso_calendar.year > kMaxYear
       \/ iso_calendar.week <= 0 \/ iso_calendar.week > 53
       \/ iso_calendar.weekday <= 0 \/ iso_calendar.weekday >= 8
    THEN Fail("out_of_range")
    ELSE With(iso_week1_monday(bld, iso_calendar.year), LAMBDA day_1 :
         IF day_1.st # "ok" THEN day_1
         ELSE With(ord_to_ymd(day_1.v + (iso_calendar.week - 1) * 7
                              + iso_calendar.weekday - 1), LAMBDA r :
              date3(r.year, r.month, r.day)))

\* date::fromisocalendar(const IsoCalendarDate& iso_calendar)
fromisocalendar(bld, iso_calendar) ==
    IF iso_calendar.year < kMinYear \/ iso_calendar.year > kMaxYear
    THEN Fail("out_of_range")
    ELSE IF (iso_calendar.week <= 0 \/ iso_calendar.week >= 53)
            /\ ~(/\ iso_calendar.week = 53
                 /\ With(weekday(iso_calendar.year, 1, 1),
                         LAMBDA first_weekday :
                            \/ first_weekday = 3
                            \/ first_weekday = 2 /\ is_leap(iso_calendar.year)))
    THEN Fail("out_of_range")
    ELSE IF iso_calendar.weekday <= 0 \/ iso_calendar.weekday >= 8
    THEN Fail("out_of_range")
    ELSE With(iso_week1_monday(bld, iso_calendar.year), LAMBDA day_1 :
         IF day_1.st # "ok" THEN day_1
         ELSE With(ord_to_ymd(day_1.v + (iso_calendar.week - 1) * 7
                              + iso_calendar.weekday - 1), LAMBDA r :
              date3(r.year, r.month, r.day)))

\* date::isocalendar()
isocalendar(bld, self) ==
    With(iso_week1_monday(bld, self.year), LAMBDA w1 :
    IF w1.st # "ok" THEN w1 ELSE
    With(ymd_to_ord(self.year, self.month, self.day), LAMBDA today :
    With(divmod_int(bld, today - w1.v, 7), LAMBDA dm :
    IF dm.st # "ok" THEN dm
    ELSE IF dm.v.quo < 0
    THEN With(iso_week1_monday(bld, self.year - 1), LAMBDA w0 :
         IF w0.st # "ok" THEN w0 ELSE
         With(divmod_int(bld, today - w0.v, 7), LAMBDA dm0 :
         IF dm0.st # "ok" THEN dm0
         ELSE Ok(IsoCalendarDate(self.year - 1, dm0.v.quo + 1, dm0.v.r + 1))))
    ELSE IF dm.v.quo >= 52
    THEN With(iso_week1_monday(bld, self.year + 1), LAMBDA w2 :
         IF w2.st # "ok" THEN w2
         ELSE IF today >= w2.v
         THEN Ok(IsoCalendarDate(self.year + 1, 1, dm.v.r + 1))
         ELSE Ok(IsoCalendarDate(self.year, dm.v.quo + 1, dm.v.r + 1)))
    ELSE Ok(IsoCalendarDate(self.year, dm.v.quo + 1, dm.v.r + 1)))))

\* the last IsoEdgeDays days of December and the first IsoEdgeDays days of
\* January of every year are tried: the days an ISO year can take from, or
\* give to, its neighbour are the three either side of January 1
IsoEdgeDays == 5

\* the first and the last IsoSpanYears years are tried: the weekdays of the
\* calendar repeat every 400 years
IsoSpanYears == 1000

IsoYears ==
    kMinYear..(kMinYear + IsoSpanYears - 1)
    \cup (kMaxYear - IsoSpanYears + 1)..kMaxYear

\* the dates whose ISO calendar is taken: the days about January 1 and a
\* day of June of those years, and every day of the first and the last year
IsoDates ==
    {set_fileds(y, md[1], md[2]) :
        y \in IsoYears,
        md \in {<<12, d>> : d \in (32 - IsoEdgeDays)..31}
               \cup {<<1, d>> : d \in 1..IsoEdgeDays} \cup {<<6, 15>>}}
    \cup {ord_to_ymd(o) : o \in 1..366}
    \cup {ord_to_ymd(o) : o \in (kMaxOrdinal - 365)..kMaxOrdinal}

\* the ISO triples handed to date::fromisocalendar
IsoTriples ==
    {IsoCalendarDate(y, w, wd) :
        y \in IsoYears \cup {kMinYear - 1, kMaxYear + 1},
        w \in {0, 1, 52, 53, 54},
        wd \in {0, 1, 7, 8}}

IsoInit ==
    /\ \/ dt_pc = "date" /\ dt_a \in IsoDates /\ dt_in = <<>>
       \/ dt_pc = "triple" /\ dt_in \in IsoTriples /\ dt_a = <<>>
    /\ dt_out = NoDateOut

\* a.isocalendar()
IsoCalendar ==
    /\ dt_pc = "date"
    /\ \E bld \in Builds :
          \E r \in {isocalendar(bld, dt_a)} :
              /\ dt_in' = <<dt_a>>
              /\ dt_out' = DateOut("date", "isocalendar", r)
              /\ dt_pc' = After(r.st, "iso")
    /\ UNCHANGED <<dt_a, cal_vars, td_vars>>

\* date::fromisocalendar(a.isocalendar())
IsoRoundTrip ==
    /\ dt_pc = "iso"
    /\ \E bld \in Builds :
          \E r \in {fromisocalendar(bld, dt_out.v)} :
              /\ dt_in' = <<dt_a, dt_out.v>>
              /\ dt_out' = DateOut("date", "fromisocalendar of isocalendar", r)
              /\ dt_pc' = After(r.st, "done")
    /\ UNCHANGED <<dt_a, cal_vars, td_vars>>

\* a = date::fromisocalendar(triple)
FromIsoCalendar ==
    /\ dt_pc = "triple"
    /\ \E bld \in Builds :
          \E r \in {fromisocalendar(bld, dt_in)} :
              /\ dt_out' = DateOut("date", "fromisocalendar", r)
              /\ dt_a' = IF r.st = "ok" THEN r.v ELSE dt_a
              /\ dt_pc' = After(r.st, "built")
    /\ UNCHANGED <<dt_in, cal_vars, td_vars>>

\* a.isocalendar() of the date built from a triple
IsoCalendarBack ==
    /\ dt_pc = "built"
    /\ \E bld \in Builds :
          \E r \in {isocalendar(bld, dt_a)} :
              /\ dt_out' = DateOut("date", "isocalendar of fromisocalendar", r)
              /\ dt_pc' = After(r.st, "done")
    /\ UNCHANGED <<dt_in, dt_a, cal_vars, td_vars>>

IsoNext == IsoCalendar \/ IsoRoundTrip \/ FromIsoCalendar \/ IsoCalendarBack

InitIso == IsoInit /\ OthersIdle

SpecIso == InitIso /\ [][IsoNext]_vars

(***************************************************************************)
(* Text: a std::string is the sequence of its characters, each a string of *)
(* one character; c_str() ends it with NUL.                                *)
(***************************************************************************)
NUL == ""

\* s.c_str()[i], for i up to s.size()
c_str(s, i) == IF i < Len(s) THEN s[i + 1] ELSE NUL

DigitChars == <<"0", "1", "2", "3", "4", "5", "6", "7", "8", "9">>

isdigit(c) == \E n \in 1..10 : DigitChars[n] = c

\* c - '0' for a digit c
DigitOf(c) == (CHOOSE n \in 1..10 : DigitChars[n] = c) - 1

\* the decimal digits of n >= 0
RECURSIVE Decimal(_)
Decimal(n) ==
    IF n < 10 THEN <<DigitChars[n + 1]>>
    ELSE Decimal(n \div 10) \o <<DigitChars[(n % 10) + 1]>>

\* n >= 0 with std::setw(width) << std::setfill(fill), and fmt's
\* {:0<width>d} and {:><width>d}
Pad(n, width, fill) ==
    With(Decimal(n), LAMBDA d :
        [i \in 1..(width - Len(d)) |-> fill] \o d)

\* the digits of n with no padding
Unpadded(n, width) == Decimal(n)

ZeroPad(n, width) == Pad(n, width, "0")

\* the null pointer parse_digits returns
nullptr == -1

\* parse_digits(ptr, var, num_digits) on s.c_str() + ptr: [p, var]
RECURSIVE parse_digits(_, _, _, _)
parse_digits(s, ptr, var, num_digits) ==
    IF num_digits = 0 THEN [p |-> ptr, var |-> var]
    ELSE IF ~isdigit(c_str(s, ptr)) THEN [p |-> nullptr, var |-> var]
    ELSE parse_digits(s, ptr + 1, var * 10 + DigitOf(c_str(s, ptr)),
                      num_digits - 1)

\* parse_isoformat_date(dtstr, &year, &month, &day): [rv, year, month, day]
parse_isoformat_date(s) ==
    With(parse_digits(s, 0, 0, 4), LAMBDA y :
    IF y.p = nullptr THEN [rv |-> -1] ELSE
    IF c_str(s, y.p) # "-" THEN [rv |-> -2] ELSE
    With(parse_digits(s, y.p + 1, 0, 2), LAMBDA m :
    IF m.p = nullptr THEN [rv |-> -1] ELSE
    IF c_str(s, m.p) # "-" THEN [rv |-> -2] ELSE
    With(parse_digits(s, m.p + 1, 0, 2), LAMBDA d :
    IF d.p = nullptr THEN [rv |-> -1]
    ELSE [rv |-> 0, year |-> y.var, month |-> m.var, day |-> d.var])))

\* date::fromisoformat without the test of date_string.size()
date_fromisoformat_any_size(s) ==
    With(parse_isoformat_date(s), LAMBDA r :
        IF r.rv < 0 THEN Fail("invalid_argument")
        ELSE date3(r.year, r.month, r.day))

\* date::fromisoformat(date_string)
date_fromisoformat(s) ==
    With(IF Len(s) = 10 THEN parse_isoformat_date(s) ELSE [rv |-> -1],
         LAMBDA r :
        IF r.rv < 0 THEN Fail("invalid_argument")
        ELSE date3(r.year, r.month, r.day))

\* date::isoformat()
date_isoformat(self) ==
    ZeroPad(self.year, 4) \o <<"-">> \o ZeroPad(self.month, 2) \o <<"-">>
    \o ZeroPad(self.day, 2)

\* the setters of time, read back by its accessors
set_time(hour, minute, second, usecond) ==
    [hour |-> hour % 256, minute |-> minute % 256, second |-> second % 256,
     microsecond |-> usecond % 16777216]

\* time::time(int hour, int minute, int second, int usecond)
time4(hour, minute, second, usecond) ==
    IF check_time_args(hour, minute, second, usecond)
    THEN Ok(set_time(hour, minute, second, usecond))
    ELSE Fail("out_of_range")

\* the loop of parse_hh_mm_ss_ff from field i (0 is the hour) at p:
\* [more, rv, p, vals], more when the fraction is to be parsed next
RECURSIVE hh_mm_ss_loop(_, _, _, _, _)
hh_mm_ss_loop(s, p, p_end, i, vals) ==
    IF i = 3 THEN [more |-> TRUE, rv |-> 0, p |-> p, vals |-> vals]
    ELSE With(parse_digits(s, p, vals[i + 1], 2), LAMBDA d :
         IF d.p = nullptr
         THEN [more |-> FALSE, rv |-> -3, p |-> p, vals |-> vals]
         ELSE With([c |-> c_str(s, d.p), p |-> d.p + 1,
                    vals |-> [vals EXCEPT ![i + 1] = d.var]], LAMBDA n :
              IF n.p >= p_end
              THEN [more |-> FALSE, rv |-> IF n.c # NUL THEN 1 ELSE 0,
                    p |-> n.p, vals |-> n.vals]
              ELSE IF n.c = ":"
              THEN hh_mm_ss_loop(s, n.p, p_end, i + 1, n.vals)
              ELSE IF n.c = "."
              THEN [more |-> TRUE, rv |-> 0, p |-> n.p, vals |-> n.vals]
              ELSE [more |-> FALSE, rv |-> -4, p |-> n.p, vals |-> n.vals]))

\* parse_hh_mm_ss_ff(tstr, tstr_end, &hour, &minute, &second, &microsecond)
\* on s.c_str(): [rv, vals, microsecond], vals being <<hour, minute, second>>
parse_hh_mm_ss_ff(s, tstr, tstr_end) ==
    With(hh_mm_ss_loop(s, tstr, tstr_end, 0, <<0, 0, 0>>), LAMBDA r :
    IF ~r.more THEN [rv |-> r.rv, vals |-> r.vals, microsecond |-> 0]
    ELSE With(tstr_end - r.p, LAMBDA len_remains :
         IF ~(len_remains = 6 \/ len_remains = 3)
         THEN [rv |-> -3, vals |-> r.vals, microsecond |-> 0]
         ELSE With(parse_digits(s, r.p, 0, len_remains), LAMBDA d :
              IF d.p = nullptr
              THEN [rv |-> -3, vals |-> r.vals, microsecond |-> d.var]
              ELSE [rv |-> IF c_str(s, d.p) # NUL THEN 1 ELSE 0,
                    vals |-> r.vals,
                    microsecond |-> IF len_remains = 3 THEN d.var * 1000
                                    ELSE d.var])))

\* where parse_isoformat_time's search for '+' or '-' stops: the do-while
\* looks at dtstr[0] before it compares with p_end
tzinfo_pos_of(s) ==
    IF \E i \in 0..(Len(s) - 1) : c_str(s, i) \in {"+", "-"}
    THEN CHOOSE i \in 0..(Len(s) - 1) :
            /\ c_str(s, i) \in {"+", "-"}
            /\ \A j \in 0..(i - 1) : c_str(s, j) \notin {"+", "-"}
    ELSE IF Len(s) = 0 THEN 1 ELSE Len(s)

\* parse_isoformat_time(dtstr, dtlen, &hour, ..., &tzmicrosecond):
\* [rv, vals, microsecond]
parse_isoformat_time(s) ==
    With(tzinfo_pos_of(s), LAMBDA tzinfo_pos :
    With(parse_hh_mm_ss_ff(s, 0, tzinfo_pos), LAMBDA t :
    IF t.rv < 0 THEN t
    ELSE IF tzinfo_pos = Len(s)
    THEN [t EXCEPT !.rv = IF t.rv = 1 THEN -5 ELSE 0]
    ELSE IF ~(Len(s) - tzinfo_pos \in {6, 9, 16}) THEN [t EXCEPT !.rv = -5]
    ELSE With(parse_hh_mm_ss_ff(s, tzinfo_pos + 1, Len(s)), LAMBDA tz :
         [t EXCEPT !.rv = IF tz.rv # 0 THEN -5 ELSE 1])))

\* time::fromisoformat(time_string)
time_fromisoformat(s) ==
    With(parse_isoformat_time(s), LAMBDA r :
        IF r.rv < 0 THEN Fail("invalid_argument")
        ELSE time4(r.vals[1], r.vals[2], r.vals[3], r.microsecond))

\* time::isoformat()
time_isoformat(self) ==
    ZeroPad(self.hour, 2) \o <<":">> \o ZeroPad(self.minute, 2) \o <<":">>
    \o ZeroPad(self.second, 2)
    \o (IF self.microsecond # 0
        THEN <<".">> \o ZeroPad(self.microsecond, 6) ELSE <<>>)

\* the name tables, unused entry 0 left out: kDayNames[0] is the first
kDayNames ==
    <<<<"M", "o", "n">>, <<"T", "u", "e">>, <<"W", "e", "d">>,
      <<"T", "h", "u">>, <<"F", "r", "i">>, <<"S", "a", "t">>,
      <<"S", "u", "n">>>>

kDayFullNames ==
    <<<<"M", "o", "n", "d", "a", "y">>, <<"T", "u", "e", "s", "d", "a", "y">>,
      <<"W", "e", "n", "s", "d", "a", "y">>, <<"T", "h", "u", "r", "d", "a", "y">>,
      <<"F", "r", "i", "d", "a", "y">>, <<"S", "a", "t", "d", "a", "y">>,
      <<"S", "u", "n", "d", "a", "y">>>>

kMonthNames ==
    <<<<"J", "a", "n">>, <<"F", "e", "b">>, <<"M", "a", "r">>,
      <<"A", "p", "r">>, <<"M", "a", "y">>, <<"J", "u", "n">>,
      <<"J", "u", "l">>, <<"A", "u", "g">>, <<"S", "e", "p">>,
      <<"O", "c", "t">>, <<"N", "o", "v">>, <<"D", "e", "c">>>>

kMonthFullNames ==
    <<<<"J", "a", "n", "u", "a", "r", "y">>, <<"F", "e", "b", "r", "u", "a", "r", "y">>,
      <<"M", "a", "r", "c", "h">>, <<"A", "p", "r", "i", "l">>,
      <<"M", "a", "y">>, <<"J", "u", "n", "e">>,
      <<"J", "u", "l", "y">>, <<"A", "u", "g", "u", "s", "t">>,
      <<"S", "e", "p", "t", "e", "m", "b", "e", "r">>, <<"O", "c", "t", "o", "b", "e", "r">>,
      <<"N", "o", "v", "e", "m", "b", "e", "r">>, <<"D", "e", "c", "e", "m", "b", "e", "r">>>>

\* the digits PARSE_02d, and the cases 'Y' and 'f', read at pstr: [p, var],
\* p being nullptr when one of the n characters is not a digit
PARSE_digits(str, pstr, n) == parse_digits(str, pstr, 0, n)

\* the variable a two-digit directive of strptime sets
FieldOf ==
    [c \in {"m", "d", "H", "M", "S"} |->
        IF c = "m" THEN "month" ELSE IF c = "d" THEN "day"
        ELSE IF c = "H" THEN "hour" ELSE IF c = "M" THEN "minute"
        ELSE "second"]

\* the while loop of datetime::strptime at pfmt and pstr, v being the
\* variables _year, ..., _microsecond: [error, pfmt, pstr, v]
RECURSIVE strptime_loop(_, _, _, _, _)
strptime_loop(str, fmt, pfmt, pstr, v) ==
    IF c_str(fmt, pfmt) = NUL \/ c_str(str, pstr) = NUL
    THEN [error |-> FALSE, pfmt |-> pfmt, pstr |-> pstr, v |-> v]
    ELSE IF c_str(fmt, pfmt) # "%"
    THEN IF c_str(fmt, pfmt) # c_str(str, pstr)
         THEN [error |-> TRUE, pfmt |-> pfmt, pstr |-> pstr, v |-> v]
         ELSE strptime_loop(str, fmt, pfmt + 1, pstr + 1, v)
    ELSE With(c_str(fmt, pfmt + 1), LAMBDA c :
         With(PARSE_digits(str, pstr,
                           IF c = "Y" THEN 4 ELSE IF c = "f" THEN 6 ELSE 2),
              LAMBDA d :
         IF c \in {"Y", "f"} \cup DOMAIN FieldOf
         THEN IF d.p = nullptr
              THEN [error |-> TRUE, pfmt |-> pfmt, pstr |-> pstr, v |-> v]
              ELSE strptime_loop(str, fmt, pfmt + 2, d.p,
                       [v EXCEPT ![IF c = "Y" THEN "year"
                                   ELSE IF c = "f" THEN "microsecond"
                                   ELSE FieldOf[c]] = d.var])
         ELSE IF c = "%" /\ c_str(str, pstr) = "%"
         THEN strptime_loop(str, fmt, pfmt + 2, pstr + 1, v)
         ELSE [error |-> TRUE, pfmt |-> pfmt, pstr |-> pstr, v |-> v]))

\* datetime::strptime(str, fmt)
strptime(str, fmt) ==
    With(strptime_loop(str, fmt, 0, 0,
                       [year |-> 0, month |-> 0, day |-> 0, hour |-> 0,
                        minute |-> 0, second |-> 0, microsecond |-> 0]),
         LAMBDA r :
        IF r.error \/ c_str(fmt, r.pfmt) # NUL THEN Fail("invalid_argument")
        ELSE datetime7(r.v.year, r.v.month, r.v.day, r.v.hour, r.v.minute,
                       r.v.second, r.v.microsecond))

\* the cases 'U' and 'W' counting weeks of seven days from January 1
week_of_year_from_new_year(self, sunday) ==
    ZeroPad(1 + IntQuot(days_before_month(self.year, self.month) + self.day - 1, 7), 2)

\* the two digits the cases 'U' (sunday: weeks begin on Sunday) and 'W'
\* (weeks begin on Monday) of datetime::strftime write
week_of_year(self, sunday) ==
    With(weekday(self.year, 1, 1), LAMBDA first_weekday :
    With(IF sunday
         THEN IF first_weekday < 6 THEN 1 + (6 - first_weekday) ELSE 1
         ELSE IF first_weekday > 0 THEN 1 + (6 - first_weekday + 1) ELSE 1,
         LAMBDA first :
    With(days_before_month(self.year, self.month) + self.day,
         LAMBDA day_of_year :
        IF day_of_year < first THEN <<"0", "0">>
        ELSE ZeroPad(1 + IntQuot(day_of_year - first, 7), 2))))

\* what one case of the switch of datetime::strftime writes to ss
strftime_case(self, c) ==
    IF c = "a" THEN Ok(kDayNames[weekday(self.year, self.month, self.day) + 1])
    ELSE IF c = "A"
    THEN Ok(kDayFullNames[weekday(self.year, self.month, self.day) + 1])
    ELSE IF c = "w"
    THEN Ok(Decimal((weekday(self.year, self.month, self.day) + 1) % 7))
    ELSE IF c = "d" THEN Ok(ZeroPad(self.day, 2))
    ELSE IF c = "b" THEN Ok(kMonthNames[self.month])
    ELSE IF c = "B" THEN Ok(kMonthFullNames[self.month])
    ELSE IF c = "m" THEN Ok(ZeroPad(self.month, 2))
    ELSE IF c = "y" THEN Ok(ZeroPad(self.year % 100, 2))
    ELSE IF c = "Y" THEN Ok(ZeroPad(self.year, 4))
    ELSE IF c = "H" THEN Ok(ZeroPad(self.hour, 2))
    ELSE IF c = "I"
    THEN IF self.hour = 0 \/ self.hour = 12 THEN Ok(<<"1", "2">>)
         ELSE Ok(ZeroPad(self.hour % 12, 2))
    ELSE IF c = "p"
    THEN IF self.hour < 12 THEN Ok(<<"A", "M">>) ELSE Ok(<<"P", "M">>)
    ELSE IF c = "M" THEN Ok(ZeroPad(self.minute, 2))
    ELSE IF c = "S" THEN Ok(ZeroPad(self.second, 2))
    ELSE IF c = "f" THEN Ok(ZeroPad(self.microsecond, 6))
    ELSE IF c \in {"z", "Z"} THEN Ok(<<>>)
    ELSE IF c = "j"
    THEN Ok(ZeroPad(days_before_month(self.year, self.month) + self.day, 3))
    ELSE IF c = "U" THEN Ok(week_of_year(self, TRUE))
    ELSE IF c = "W" THEN Ok(week_of_year(self, FALSE))
    ELSE IF c = "c"
    THEN Ok(kDayNames[weekday(self.year, self.month, self.day) + 1]
            \o <<" ">> \o kMonthNames[self.month] \o <<" ">>
            \o Pad(self.day, 2, " ") \o <<" ">> \o ZeroPad(self.hour, 2)
            \o <<":">> \o ZeroPad(self.minute, 2) \o <<":">>
            \o ZeroPad(self.second, 2) \o <<" ">> \o ZeroPad(self.year, 4))
    ELSE IF c = "x"
    THEN Ok(ZeroPad(self.month, 2) \o <<"/">> \o ZeroPad(self.day, 2)
            \o <<"/">> \o ZeroPad(self.year % 100, 2))
    ELSE IF c = "X"
    THEN Ok(ZeroPad(self.hour, 2) \o <<":">> \o ZeroPad(self.minute, 2)
            \o <<":">> \o ZeroPad(self.second, 2))
    ELSE IF c = "%" THEN Ok(<<"%">>)
    ELSE Fail("invalid_argument")

\* the while loop of datetime::strftime at fmt[i], ss being what is written
RECURSIVE strftime_loop(_, _, _, _)
strftime_loop(self, fmt, i, ss) ==
    IF ~(i < Len(fmt)) THEN Ok(ss)
    ELSE IF c_str(fmt, i) # "%"
    THEN strftime_loop(self, fmt, i + 1, ss \o <<c_str(fmt, i)>>)
    ELSE With(strftime_case(self, c_str(fmt, i + 1)), LAMBDA r :
         IF r.st # "ok" THEN r
         ELSE strftime_loop(self, fmt, i + 2, ss \o r.v))

\* datetime::strftime(fmt)
strftime(self, fmt) == strftime_loop(self, fmt, 0, <<>>)

(***************************************************************************)
(* The text program: strings are parsed, and objects formatted and parsed  *)
(* back.                                                                   *)
(***************************************************************************)
\* "2021-08-31"
IsoDateText == <<"2", "0", "2", "1", "-", "0", "8", "-", "3", "1">>

\* the characters put in the place of one character of a text
OddChars == {"0", "9", "-", "/", ":", ".", " ", "x", "+", "%"}

\* what is appended to a well-formed text
JunkTexts ==
    {<<"j">>, <<"j", "u", "n", "k">>, <<" ">>, <<"0">>, <<"-">>}

\* text with one character replaced, cut short, or with junk appended
Variants(text) ==
    {[text EXCEPT ![p] = c] : p \in 1..Len(text), c \in OddChars}
    \cup {SubSeq(text, 1, n) : n \in 0..Len(text)}
    \cup {text \o j : j \in JunkTexts}

\* strings handed to date::fromisoformat: well-formed ones, valid or not
DateStrings0 ==
    {<<"2", "0", "2", "1", "-", "0", "8", "-", "3", "1">>, <<"0", "0", "0", "1", "-", "0", "1", "-", "0", "1">>,
     <<"9", "9", "9", "9", "-", "1", "2", "-", "3", "1">>, <<"2", "0", "2", "4", "-", "0", "2", "-", "2", "9">>,
     <<"2", "0", "2", "3", "-", "0", "2", "-", "2", "9">>, <<"0", "0", "0", "0", "-", "0", "1", "-", "0", "1">>,
     <<"2", "0", "2", "1", "-", "1", "3", "-", "0", "1">>, <<"2", "0", "2", "1", "-", "0", "0", "-", "1", "0">>,
     <<"2", "0", "2", "1", "-", "8", "-", "0", "3", "1">>, <<"2", "0", "2", "1", "0", "8", "3", "1">>,
     <<"2", "0", "2", "1", "-", "0", "8", "-", "3", "1", "T", "0", "0", ":", "0", "0", ":", "0", "0">>}

\* the strings handed to date::fromisoformat
DateStrings == DateStrings0 \cup Variants(IsoDateText)

\* "%Y-%m-%d"
DateFormat == <<"%", "Y", "-", "%", "m", "-", "%", "d">>

\* "%Y/%m/%d %H:%M:%S.%f"
FullFormat == <<"%", "Y", "/", "%", "m", "/", "%", "d", " ", "%", "H", ":", "%", "M", ":", "%", "S", ".", "%", "f">>

\* "2021/08/31 15:59:55.123456"
FullText == <<"2", "0", "2", "1", "/", "0", "8", "/", "3", "1", " ", "1", "5", ":", "5", "9", ":", "5", "5", ".", "1", "2", "3", "4", "5", "6">>

\* further formats handed to datetime::strptime
OtherFormats ==
    {<<>>, <<"%">>, <<"%", "Y", "%">>, <<"%", "%", "%", "Y">>, <<"%", "q">>,
     <<"%", "Y", "-", "%", "m", "-", "%", "d", " ", "%", "H">>,
     <<"x", "%", "Y", "x">>, <<"%", "y">>}

\* further texts handed to datetime::strptime
OtherTexts ==
    {<<>>, <<"2", "0", "2", "1">>, <<"%", "2", "0", "2", "1">>, <<"2", "0", "2", "1", "-", "0", "8", "-", "3", "1", " ", "1", "5">>,
     <<"x", "2", "0", "2", "1", "x">>, <<"x", "2", "0", "2", "1", "x", "x">>,
     <<"2", "0", "2", "1", "-", "0", "2", "-", "3", "0">>, <<"2", "1">>}

\* the <<text, format>> pairs handed to datetime::strptime
StrptimeIn ==
    {<<s, DateFormat>> : s \in Variants(IsoDateText)}
    \cup {<<s, FullFormat>> : s \in Variants(FullText)}
    \cup {<<s, f>> : s \in OtherTexts \cup {IsoDateText},
                     f \in OtherFormats \cup {DateFormat}}

\* the formats handed to datetime::strftime
StrftimeFormats ==
    {<<"%", "Y", "/", "%", "m", "/", "%", "d", " ", "%", "H", ":", "%", "M", ":", "%", "S", ".", "%", "f">>,
     <<"%", "Y", "-", "%", "m", "-", "%", "d">>, <<"%", "a", " ", "%", "A", " ", "%", "w", " ", "%", "d", " ", "%", "b", " ", "%", "B", " ", "%", "m", " ", "%", "y">>,
     <<"%", "I", " ", "%", "p", " ", "%", "z", "%", "Z", " ", "%", "j", " ", "%", "U", " ", "%", "W">>,
     <<"%", "c", "|", "%", "x", "|", "%", "X", "|", "%", "%">>,
     <<"%", "q">>, <<"%", "Y", "%">>, <<"%">>}

\* the datetimes that are formatted
TextDatetimes ==
    {set_datetime(d.year, d.month, d.day, b[1], b[2], b[3], b[4]) :
        d \in OtherDates,
        b \in {x \in TimeArgs : check_time_args(x[1], x[2], x[3], x[4])}}
    \cup {set_datetime(2021, 8, 31, 15, 59, 55, 123456),
          set_datetime(2021, 8, 31, 5, 9, 5, 6)}

\* the hour, minute and second parts of the strings handed to time::fromisoformat
TimeBases ==
    {<<>>, <<"1">>, <<"1", "2">>, <<"1", "2", ":">>, <<"1", "2", ":", "3">>,
     <<"1", "2", ":", "3", "0">>, <<"1", "2", ":", "3", "0", ":">>,
     <<"1", "2", ":", "3", "0", ":", "4">>, <<"1", "2", ":", "3", "0", ":", "4", "5">>,
     <<"1", "x">>, <<"1", "2", "x", "3", "0">>, <<"1", "2", ":", "3", "x">>,
     <<"1", "2", ":", "3", "0", "x", "4", "5">>, <<"1", "2", ":", "3", "0", ":", "4", "x">>,
     <<"2", "4">>, <<"1", "2", ":", "6", "0">>, <<"1", "2", ":", "3", "0", ":", "6", "0">>,
     <<"2", "3", ":", "5", "9", ":", "5", "9">>, <<"0", "0", ":", "0", "0", ":", "0", "0">>,
     <<" ", "1", "2">>, <<"1", "2", " ">>, <<"1", "2", "x">>}

\* their fraction parts
TimeFracs ==
    {<<>>, <<".">>, <<".", "1">>, <<".", "1", "2">>, <<".", "1", "2", "3">>,
     <<".", "1", "2", "3", "4">>, <<".", "1", "2", "3", "4", "5">>,
     <<".", "1", "2", "3", "4", "5", "6">>, <<".", "1", "2", "3", "4", "5", "6", "7">>,
     <<":", "1", "2", "3">>, <<":", "1", "2", "3", "4", "5", "6">>,
     <<".", "1", "2", "x">>, <<".", "1", "2", "3", "4", "5", "x">>,
     <<"x", "1", "2", "3">>, <<",", "1", "2", "3">>, <<".", "0", "0", "0">>,
     <<".", "9", "9", "9", "9", "9", "9">>}

\* their offset parts
TimeZones ==
    {<<>>, <<"+", "0", "5", ":", "0", "0">>, <<"-", "0", "5", ":", "0", "0">>,
     <<"+", "0", "5", ":", "0", "0", ":", "3", "0">>, <<"-", "0", "5", ":", "0", "0", ":", "3", "0", ".", "1", "2", "3", "4", "5", "6">>,
     <<"+", "0", "5", ":", "0", "0", ":", "3", "0", ":", "1", "2", "3", "4", "5", "6">>,
     <<"+", "0", "5">>, <<"+", "0", "5", "0", "0">>, <<"+", "0", "5", ":", "0", "x">>,
     <<"+", "0", "5", ":", "0", "0", ":", "3">>, <<"+", "0", "5", ":", "0", "0", ":", "3", "0", ".", "1", "2", "3">>,
     <<"Z">>, <<"+">>, <<"-">>, <<"x", "+", "0", "5", ":", "0", "0">>,
     <<"+", "0", "5", ":", "0", "0", "x">>, <<"+", "0", "5", "x", "0", "0">>,
     <<"+", "0", "5", ":", "0", "0", "+", "0", "5", ":", "0", "0">>}

\* the strings handed to time::fromisoformat
TimeStrings ==
    {b \o f \o z : b \in TimeBases, f \in TimeFracs, z \in TimeZones}

\* the times that are formatted
TextTimes ==
    {set_time(h, mi, s, us) :
        h \in {0, 12, 23}, mi \in {0, 30, 59}, s \in {0, 45, 59},
        us \in {0, 1, 123000, 123456, 999999}}

TextInit ==
    /\ \/ dt_pc = "date_string" /\ dt_in \in DateStrings /\ dt_a = <<>>
       \/ dt_pc = "date" /\ dt_in = <<>> /\ dt_a \in OtherDates
       \/ dt_pc = "strptime" /\ dt_in \in StrptimeIn /\ dt_a = <<>>
       \/ dt_pc = "datetime" /\ dt_in = <<>> /\ dt_a \in TextDatetimes
       \/ dt_pc = "time_string" /\ dt_in \in TimeStrings /\ dt_a = <<>>
       \/ dt_pc = "time" /\ dt_in = <<>> /\ dt_a \in TextTimes
    /\ dt_out = NoDateOut

\* a = date::fromisoformat(text)
DateFromIsoformat ==
    /\ dt_pc = "date_string"
    /\ \E r \in {date_fromisoformat(dt_in)} :
          /\ dt_out' = DateOut("date", "fromisoformat", r)
          /\ dt_a' = IF r.st = "ok" THEN r.v ELSE dt_a
          /\ dt_pc' = After(r.st, "done")
    /\ UNCHANGED <<dt_in, cal_vars, td_vars>>

\* a.isoformat()
DateIsoformat ==
    /\ dt_pc = "date"
    /\ dt_out' = DateOut("date", "isoformat", Ok(date_isoformat(dt_a)))
    /\ dt_pc' = "date_text"
    /\ UNCHANGED <<dt_in, dt_a, cal_vars, td_vars>>

\* date::fromisoformat(a.isoformat())
DateIsoformatBack ==
    /\ dt_pc = "date_text"
    /\ \E r \in {date_fromisoformat(dt_out.v)} :
          /\ dt_in' = dt_out.v
          /\ dt_out' = DateOut("date", "fromisoformat of isoformat", r)
          /\ dt_pc' = After(r.st, "done")
    /\ UNCHANGED <<dt_a, cal_vars, td_vars>>

\* a = datetime::strptime(text, format)
Strptime ==
    /\ dt_pc = "strptime"
    /\ \E r \in {strptime(dt_in[1], dt_in[2])} :
          /\ dt_out' = DateOut("datetime", "strptime", r)
          /\ dt_a' = IF r.st = "ok" THEN r.v ELSE dt_a
          /\ dt_pc' = After(r.st, "done")
    /\ UNCHANGED <<dt_in, cal_vars, td_vars>>

\* a.strftime(format)
Strftime ==
    /\ dt_pc = "datetime"
    /\ \E fmt \in StrftimeFormats :
          \E r \in {strftime(dt_a, fmt)} :
              /\ dt_in' = <<fmt>>
              /\ dt_out' = DateOut("datetime", "strftime", r)
              /\ dt_pc' = After(r.st, "datetime_text")
    /\ UNCHANGED <<dt_a, cal_vars, td_vars>>

\* datetime::strptime(a.strftime(format), format)
StrptimeBack ==
    /\ dt_pc = "datetime_text"
    /\ \E r \in {strptime(dt_out.v, dt_in[1])} :
          /\ dt_in' = <<dt_out.v, dt_in[1]>>
          /\ dt_out' = DateOut("datetime", "strptime of strftime", r)
          /\ dt_pc' = After(r.st, "done")
    /\ UNCHANGED <<dt_a, cal_vars, td_vars>>

\* a = time::fromisoformat(text)
TimeFromIsoformat ==
    /\ dt_pc = "time_string"
    /\ \E r \in {time_fromisoformat(dt_in)} :
          /\ dt_out' = DateOut("time", "fromisoformat", r)
          /\ dt_a' = IF r.st = "ok" THEN r.v ELSE dt_a
          /\ dt_pc' = After(r.st, "done")
    /\ UNCHANGED <<dt_in, cal_vars, td_vars>>

\* a.isoformat() for a time a
TimeIsoformat ==
    /\ dt_pc = "time"
    /\ dt_out' = DateOut("time", "isoformat", Ok(time_isoformat(dt_a)))
    /\ dt_pc' = "time_text"
    /\ UNCHANGED <<dt_in, dt_a, cal_vars, td_vars>>

\* time::fromisoformat(a.isoformat())
TimeIsoformatBack ==
    /\ dt_pc = "time_text"
    /\ \E r \in {time_fromisoformat(dt_out.v)} :
          /\ dt_in' = dt_out.v
          /\ dt_out' = DateOut("time", "fromisoformat of isoformat", r)
          /\ dt_pc' = After(r.st, "done")
    /\ UNCHANGED <<dt_a, cal_vars, td_vars>>

TextNext ==
    \/ DateFromIsoformat \/ DateIsoformat \/ DateIsoformatBack
    \/ Strptime \/ Strftime \/ StrptimeBack
    \/ TimeFromIsoformat \/ TimeIsoformat \/ TimeIsoformatBack

InitText == TextInit /\ OthersIdle

SpecText == InitText /\ [][TextNext]_vars

(***************************************************************************)
(* timedelta::repr.                                                        *)
(***************************************************************************)
\* fmt's {} of an int
FormatInt(n) == IF n < 0 THEN <<"-">> \o Decimal(-n) ELSE Decimal(n)

\* the text of fmt::format("timedelta(" ... ")") on a list of ints
RECURSIVE FormatList(_, _)
FormatList(ns, i) ==
    IF i > Len(ns) THEN <<>>
    ELSE (IF i > 1 THEN <<",", " ">> ELSE <<>>) \o FormatInt(ns[i])
         \o FormatList(ns, i + 1)

FormatCall(ns) ==
    <<"t", "i", "m", "e", "d", "e", "l", "t", "a", "(">> \o FormatList(ns, 1)
    \o <<")">>

\* timedelta::repr()
timedelta_repr(self) ==
    IF self.microseconds # 0
    THEN FormatCall(<<self.days, self.seconds, self.microseconds>>)
    ELSE IF self.seconds # 0
    THEN FormatCall(<<self.seconds, self.microseconds>>)
    ELSE FormatCall(<<self.days>>)

\* the timedeltas repr is called on: normalized, as every timedelta is
ReprDeltas ==
    {Delta(d, s, us) : d \in {0, 1, -1, 5, 12, kMaxDeltaDays, -kMaxDeltaDays},
                       s \in {0, 1, 30, kSecondsPerDay - 1},
                       us \in {0, 1, 500000, kUsPerSecond - 1}}

ReprInit ==
    /\ dt_pc = "timedelta"
    /\ dt_a \in ReprDeltas
    /\ dt_in = <<>>
    /\ dt_out = NoDateOut

\* a.repr()
TimedeltaRepr ==
    /\ dt_pc = "timedelta"
    /\ dt_out' = DateOut("timedelta", "repr", Ok(timedelta_repr(dt_a)))
    /\ dt_pc' = "done"
    /\ UNCHANGED <<dt_in, dt_a, cal_vars, td_vars>>

ReprNext == TimedeltaRepr

InitRepr == ReprInit /\ OthersIdle

SpecRepr == InitRepr /\ [][ReprNext]_vars

(***************************************************************************)
(* Negation and abs of a normalized timedelta.                             *)
(***************************************************************************)
\* the timedeltas negated: normalized, as every timedelta is
NegDeltas ==
    {Delta(d, s, us) :
        d \in {0, 1, -1, 2, -2, 36524, -36524, 106751991, -106751992,
               kMaxDeltaDays - 1, 1 - kMaxDeltaDays, kMaxDeltaDays, -kMaxDeltaDays},
        s \in {0, 1, 43200, kSecondsPerDay - 1},
        us \in {0, 1, 500000, kUsPerSecond - 1}}

NegInit ==
    /\ td_pc = "negate"
    /\ da \in NegDeltas
    /\ db = Zero
    /\ out = NoOut

\* -a
Negate ==
    /\ td_pc = "negate"
    /\ \E bld \in Builds :
          \E r \in {timedelta_neg(bld, da)} :
              /\ out' = OutOf("-a", 0, r)
              /\ db' = IF r.st = "ok" THEN r.v ELSE db
              /\ td_pc' = After(r.st, "negated")
    /\ UNCHANGED <<da, cal_vars, dt_vars>>

\* -(-a), b being -a
NegateTwice ==
    /\ td_pc = "negated"
    /\ \E bld \in Builds :
          \E r \in {timedelta_neg(bld, db)} :
              /\ out' = OutOf("-(-a)", 0, r)
              /\ td_pc' = After(r.st, "done")
    /\ UNCHANGED <<da, db, cal_vars, dt_vars>>

\* a + (-a), b being -a
AddNegated ==
    /\ td_pc = "negated"
    /\ \E bld \in Builds :
          \E r \in {timedelta_add(bld, da, db)} :
              /\ out' = OutOf("a + (-a)", 0, r)
              /\ td_pc' = After(r.st, "done")
    /\ UNCHANGED <<da, db, cal_vars, dt_vars>>

\* a.abs()
AbsOf ==
    /\ td_pc = "negate"
    /\ \E bld \in Builds :
          \E r \in {timedelta_abs(bld, da)} :
              /\ out' = OutOf("abs", 0, r)
              /\ td_pc' = After(r.st, "done")
    /\ UNCHANGED <<da, db, cal_vars, dt_vars>>

NegNext == Negate \/ NegateTwice \/ AddNegated \/ AbsOf

InitNeg ==
    /\ NegInit
    /\ cal_pc = "idle" /\ ordinal = 1 /\ ymd = NoDate /\ back = 0
    /\ DateIdle

SpecNeg == InitNeg /\ [][NegNext]_vars

(***************************************************************************)
(* Sequences of operators and compound assignments on one variable: a of   *)
(* class timedelta, date or datetime, with the timedelta b (and the int n) *)
(* as the other operand.  An exception is caught by the caller, which goes *)
(* on with the next operation; an abort or a trap ends the process.        *)
(***************************************************************************)
MaxOps == 2

\* an assignment that clears the variable when the evaluation of value throws
assign_partial(self, r) ==
    IF r.st = "ok" THEN r.v ELSE [f \in DOMAIN self |-> 0]

\* `*this = value; return *this;` where the evaluation of value ended r: a
\* throw leaves before operator= is called

assign(self, r) == IF r.st = "ok" THEN r.v ELSE self

\* the program's position: the class of a and the number of operations done
FramePc(cls, k) == cls \o " " \o ToString(k)

FrameAfter(cls, k, st) ==
    IF st \in {"abort", "trap"} THEN "dead" ELSE FramePc(cls, k + 1)

FrameDeltas ==
    {Zero, Delta(0, 0, 1), Delta(1, 0, 0),
     Delta(kMaxDeltaDays, kSecondsPerDay - 1, kUsPerSecond - 1),
     Delta(-kMaxDeltaDays, 0, 0)}

FrameInts == {0, 2}

FrameDates ==
    {set_fileds(1, 1, 1), set_fileds(2021, 8, 31), set_fileds(9999, 12, 31)}

FrameDatetimes ==
    {set_datetime(1, 1, 1, 0, 0, 0, 0),
     set_datetime(2021, 8, 31, 15, 59, 55, 123456),
     set_datetime(9999, 12, 31, 23, 59, 59, 999999)}

FrameInit ==
    /\ db \in FrameDeltas
    /\ out = NoOut
    /\ dt_in = <<>>
    /\ dt_out = NoDateOut
    /\ \/ td_pc = FramePc("timedelta", 0) /\ da \in FrameDeltas
          /\ dt_pc = "idle" /\ dt_a = <<>>
       \/ td_pc = "idle" /\ da = Zero
          /\ dt_pc = FramePc("date", 0) /\ dt_a \in FrameDates
       \/ td_pc = "idle" /\ da = Zero
          /\ dt_pc = FramePc("datetime", 0) /\ dt_a \in FrameDatetimes

\* a + b
FrameAdd ==
    \E k \in 0..(MaxOps - 1) :
        /\ td_pc = FramePc("timedelta", k)
        /\ \E bld \in Builds :
              \E r \in {timedelta_add(bld, da, db)} :
                  /\ out' = OutOf("+", 0, r)
                  /\ td_pc' = FrameAfter("timedelta", k, r.st)
                  /\ UNCHANGED <<da, db, cal_vars, dt_vars>>

\* a += b
FrameAddAssign ==
    \E k \in 0..(MaxOps - 1) :
        /\ td_pc = FramePc("timedelta", k)
        /\ \E bld \in Builds :
              \E r \in {timedelta_add(bld, da, db)} :
                  /\ out' = OutOf("+=", 0, r)
                  /\ da' = assign(da, r)
                  /\ td_pc' = FrameAfter("timedelta", k, r.st)
                  /\ UNCHANGED <<db, cal_vars, dt_vars>>

\* a - b
FrameSub ==
    \E k \in 0..(MaxOps - 1) :
        /\ td_pc = FramePc("timedelta", k)
        /\ \E bld \in Builds :
              \E r \in {timedelta_sub(bld, da, db)} :
                  /\ out' = OutOf("-", 0, r)
                  /\ td_pc' = FrameAfter("timedelta", k, r.st)
                  /\ UNCHANGED <<da, db, cal_vars, dt_vars>>

\* a -= b
FrameSubAssign ==
    \E k \in 0..(MaxOps - 1) :
        /\ td_pc = FramePc("timedelta", k)
        /\ \E bld \in Builds :
              \E r \in {timedelta_sub(bld, da, db)} :
                  /\ out' = OutOf("-=", 0, r)
                  /\ da' = assign(da, r)
                  /\ td_pc' = FrameAfter("timedelta", k, r.st)
                  /\ UNCHANGED <<db, cal_vars, dt_vars>>

\* a * n
FrameMul ==
    \E k \in 0..(MaxOps - 1) :
        /\ td_pc = FramePc("timedelta", k)
        /\ \E n \in FrameInts, bld \in Builds :
              \E r \in {timedelta_mul(bld, da, n)} :
                  /\ out' = OutOf("*n", n, r)
                  /\ td_pc' = FrameAfter("timedelta", k, r.st)
                  /\ UNCHANGED <<da, db, cal_vars, dt_vars>>

\* a *= n
FrameMulAssign ==
    \E k \in 0..(MaxOps - 1) :
        /\ td_pc = FramePc("timedelta", k)
        /\ \E n \in FrameInts, bld \in Builds :
              \E r \in {timedelta_mul(bld, da, n)} :
                  /\ out' = OutOf("*=n", n, r)
                  /\ da' = assign(da, r)
                  /\ td_pc' = FrameAfter("timedelta", k, r.st)
                  /\ UNCHANGED <<db, cal_vars, dt_vars>>

\* a / n
FrameDivInt ==
    \E k \in 0..(MaxOps - 1) :
        /\ td_pc = FramePc("timedelta", k)
        /\ \E n \in FrameInts, bld \in Builds :
              \E r \in {timedelta_div_int(bld, da, n)} :
                  /\ out' = OutOf("/n", n, r)
                  /\ td_pc' = FrameAfter("timedelta", k, r.st)
                  /\ UNCHANGED <<da, db, cal_vars, dt_vars>>

\* a /= n
FrameDivIntAssign ==
    \E k \in 0..(MaxOps - 1) :
        /\ td_pc = FramePc("timedelta", k)
        /\ \E n \in FrameInts, bld \in Builds :
              \E r \in {timedelta_div_int(bld, da, n)} :
                  /\ out' = OutOf("/=n", n, r)
                  /\ da' = assign(da, r)
                  /\ td_pc' = FrameAfter("timedelta", k, r.st)
                  /\ UNCHANGED <<db, cal_vars, dt_vars>>

\* a % b
FrameMod ==
    \E k \in 0..(MaxOps - 1) :
        /\ td_pc = FramePc("timedelta", k)
        /\ \E bld \in Builds :
              \E r \in {timedelta_mod(bld, da, db)} :
                  /\ out' = OutOf("%", 0, r)
                  /\ td_pc' = FrameAfter("timedelta", k, r.st)
                  /\ UNCHANGED <<da, db, cal_vars, dt_vars>>

\* a %= b
FrameModAssign ==
    \E k \in 0..(MaxOps - 1) :
        /\ td_pc = FramePc("timedelta", k)
        /\ \E bld \in Builds :
              \E r \in {timedelta_mod(bld, da, db)} :
                  /\ out' = OutOf("%=", 0, r)
                  /\ da' = assign(da, r)
                  /\ td_pc' = FrameAfter("timedelta", k, r.st)
                  /\ UNCHANGED <<db, cal_vars, dt_vars>>

\* a + b for a date a
FrameDateAdd ==
    \E k \in 0..(MaxOps - 1) :
        /\ dt_pc = FramePc("date", k)
        /\ \E bld \in Builds :
              \E r \in {date_add(bld, dt_a, db)} :
                  /\ dt_in' = <<dt_a, db>>
                  /\ dt_out' = DateOut("date", "+", r)
                  /\ dt_pc' = FrameAfter("date", k, r.st)
                  /\ UNCHANGED <<dt_a, cal_vars, td_vars>>

\* a += b for a date a
FrameDateAddAssign ==
    \E k \in 0..(MaxOps - 1) :
        /\ dt_pc = FramePc("date", k)
        /\ \E bld \in Builds :
              \E r \in {date_add(bld, dt_a, db)} :
                  /\ dt_in' = <<dt_a, db>>
                  /\ dt_out' = DateOut("date", "+=", r)
                  /\ dt_a' = assign(dt_a, r)
                  /\ dt_pc' = FrameAfter("date", k, r.st)
                  /\ UNCHANGED <<cal_vars, td_vars>>

\* a - b for a date a
FrameDateSub ==
    \E k \in 0..(MaxOps - 1) :
        /\ dt_pc = FramePc("date", k)
        /\ \E bld \in Builds :
              \E r \in {date_sub(bld, dt_a, db)} :
                  /\ dt_in' = <<dt_a, db>>
                  /\ dt_out' = DateOut("date", "-", r)
                  /\ dt_pc' = FrameAfter("date", k, r.st)
                  /\ UNCHANGED <<dt_a, cal_vars, td_vars>>

\* a -= b for a date a
FrameDateSubAssign ==
    \E k \in 0..(MaxOps - 1) :
        /\ dt_pc = FramePc("date", k)
        /\ \E bld \in Builds :
              \E r \in {date_sub(bld, dt_a, db)} :
                  /\ dt_in' = <<dt_a, db>>
                  /\ dt_out' = DateOut("date", "-=", r)
                  /\ dt_a' = assign(dt_a, r)
                  /\ dt_pc' = FrameAfter("date", k, r.st)
                  /\ UNCHANGED <<cal_vars, td_vars>>

\* a + b for a datetime a
FrameDatetimeAdd ==
    \E k \in 0..(MaxOps - 1) :
        /\ dt_pc = FramePc("datetime", k)
        /\ \E bld \in Builds :
              \E r \in {datetime_add(bld, dt_a, db)} :
                  /\ dt_in' = <<dt_a, db>>
                  /\ dt_out' = DateOut("datetime", "+", r)
                  /\ dt_pc' = FrameAfter("datetime", k, r.st)
                  /\ UNCHANGED <<dt_a, cal_vars, td_vars>>

\* a += b for a datetime a
FrameDatetimeAddAssign ==
    \E k \in 0..(MaxOps - 1) :
        /\ dt_pc = FramePc("datetime", k)
        /\ \E bld \in Builds :
              \E r \in {datetime_add(bld, dt_a, db)} :
                  /\ dt_in' = <<dt_a, db>>
                  /\ dt_out' = DateOut("datetime", "+=", r)
                  /\ dt_a' = assign(dt_a, r)
                  /\ dt_pc' = FrameAfter("datetime", k, r.st)
                  /\ UNCHANGED <<cal_vars, td_vars>>

\* a - b for a datetime a
FrameDatetimeSub ==
    \E k \in 0..(MaxOps - 1) :
        /\ dt_pc = FramePc("datetime", k)
        /\ \E bld \in Builds :
              \E r \in {datetime_sub(bld, dt_a, db)} :
                  /\ dt_in' = <<dt_a, db>>
                  /\ dt_out' = DateOut("datetime", "-", r)
                  /\ dt_pc' = FrameAfter("datetime", k, r.st)
                  /\ UNCHANGED <<dt_a, cal_vars, td_vars>>

\* a -= b for a datetime a
FrameDatetimeSubAssign ==
    \E k \in 0..(MaxOps - 1) :
        /\ dt_pc = FramePc("datetime", k)
        /\ \E bld \in Builds :
              \E r \in {datetime_sub(bld, dt_a, db)} :
                  /\ dt_in' = <<dt_a, db>>
                  /\ dt_out' = DateOut("datetime", "-=", r)
                  /\ dt_a' = assign(dt_a, r)
                  /\ dt_pc' = FrameAfter("datetime", k, r.st)
                  /\ UNCHANGED <<cal_vars, td_vars>>

FrameNext ==
    \/ FrameAdd \/ FrameAddAssign \/ FrameSub \/ FrameSubAssign
    \/ FrameMul \/ FrameMulAssign \/ FrameDivInt \/ FrameDivIntAssign
    \/ FrameMod \/ FrameModAssign
    \/ FrameDateAdd \/ FrameDateAddAssign
    \/ FrameDateSub \/ FrameDateSubAssign
    \/ FrameDatetimeAdd \/ FrameDatetimeAddAssign
    \/ FrameDatetimeSub \/ FrameDatetimeSubAssign

InitFrame ==
    /\ FrameInit
    /\ cal_pc = "idle" /\ ordinal = 1 /\ ymd = NoDate /\ back = 0

SpecFrame == InitFrame /\ [][FrameNext]_vars

(***************************************************************************)
(* Timestamps.  long long and time_t are 64 bits wide (LP64) and are       *)
(* modelled as exact integers; no value below comes near 2^63 except where *)
(* a conversion to unsigned long is modelled.  The local-offset resolver,  *)
(* localtime_r, is the environment: a zone has one transition, at the UTC  *)
(* instant `at` (seconds since 1970), with the offsets `before` and        *)
(* `after` in seconds east of UTC.                                         *)
(***************************************************************************)
kMaxFoldSeconds == 24 * 3600

\* kEpoch and EPOCH_SECONDS: 719163LL * 24 * 60 * 60
kEpoch == ZMul(ZInt(719163), ZInt(24 * 60 * 60))

\* the calendar fields of the day `days` days after 1970-01-01, as libc
\* computes them for any year
gmtime_date(days) ==
    With(IF days + 719163 < 1 THEN ((-(days + 719163)) \div DI400Y) + 1 ELSE 0,
         LAMBDA cycles :
    With(ord_to_ymd(days + 719163 + cycles * DI400Y), LAMBDA r :
        [r EXCEPT !.year = r.year - 400 * cycles]))

\* localtime_r(&t, &tm) in a zone: struct tm
localtime_r(zone, t) ==
    With(ZAdd(t, ZInt(IF ZLt(t, ZInt(zone.at)) THEN zone.before ELSE zone.after)),
         LAMBDA wall :
    With(ZToInt(ZFloorMod(wall, ZInt(86400))), LAMBDA rem :
    With(gmtime_date(ZToInt(ZFloorDiv(wall, ZInt(86400)))), LAMBDA d :
        [tm_year |-> d.year - 1900, tm_mon |-> d.month - 1, tm_mday |-> d.day,
         tm_hour |-> rem \div 3600, tm_min |-> (rem % 3600) \div 60,
         tm_sec |-> rem % 60])))

\* utc_to_seconds(year, month, day, hour, minute, second)
utc_to_seconds(year, month, day, hour, minute, second) ==
    IF year < kMinYear \/ year > kMaxYear THEN Fail("out_of_range")
    ELSE Ok(ZAdd(ZMul(ZInt(ymd_to_ord(year, month, day)), ZInt(86400)),
                 ZInt((hour * 60 + minute) * 60 + second)))

\* local(u)
local(zone, u) ==
    With(localtime_r(zone, ZSub(u, kEpoch)), LAMBDA tm :
        utc_to_seconds(tm.tm_year + 1900, tm.tm_mon + 1, tm.tm_mday,
                       tm.tm_hour, tm.tm_min, tm.tm_sec))

\* the end of local_to_seconds, from `u2 = t - b` on
local_to_seconds_tail(zone, fold, t, u1, t1, b) ==
    With(ZSub(t, b), LAMBDA u2 :
    With(local(zone, u2), LAMBDA t2 :
        IF t2.st # "ok" THEN t2
        ELSE IF t2.v = ZInt(-1) THEN Ok(ZInt(-1))
        ELSE IF t2.v = t THEN Ok(u2)
        ELSE IF t1 = t THEN Ok(u1)
        ELSE IF fold # 0
        THEN Ok(IF ZLt(u1, u2) THEN u1 ELSE u2)
        ELSE Ok(IF ZLt(u1, u2) THEN u2 ELSE u1)))

\* local_to_seconds from the test of t1 == t on
local_to_seconds_found(bld, zone, fold, t, a, u1, t1) ==
    IF t1 = t
    THEN With(IF fold # 0 THEN ZAdd(u1, ZInt(kMaxFoldSeconds))
                          ELSE ZSub(u1, ZInt(kMaxFoldSeconds)), LAMBDA u2 :
         With(local(zone, u2), LAMBDA lt :
             IF lt.st # "ok" THEN lt
             ELSE IF lt.v = ZInt(-1) THEN Ok(ZInt(-1))
             ELSE IF a = ZSub(lt.v, u2) THEN Ok(u1)
             ELSE local_to_seconds_tail(zone, fold, t, u1, t1, ZSub(lt.v, u2))))
    ELSE IF ~bld.ndebug /\ a = ZSub(t1, u1) THEN Fail("abort")
    ELSE local_to_seconds_tail(zone, fold, t, u1, t1, ZSub(t1, u1))

\* local_to_seconds(year, month, day, hour, minute, second, fold)
local_to_seconds(bld, zone, year, month, day, hour, minute, second, fold) ==
    With(utc_to_seconds(year, month, day, hour, minute, second), LAMBDA t :
        IF t.st # "ok" THEN t
        ELSE With(local(zone, t.v), LAMBDA lt :
            IF lt.st # "ok" THEN lt
            ELSE IF lt.v = ZInt(-1) THEN Ok(ZInt(-1))
            ELSE With(ZSub(t.v, ZSub(lt.v, t.v)), LAMBDA u1 :
                 With(local(zone, u1), LAMBDA t1 :
                     IF t1.st # "ok" THEN t1
                     ELSE IF t1.v = ZInt(-1) THEN Ok(ZInt(-1))
                     ELSE local_to_seconds_found(bld, zone, fold, t.v,
                                                 ZSub(lt.v, t.v), u1, t1.v)))))

\* datetime::timestamp(): microseconds since 1970-01-01 UTC
timestamp(bld, zone, self) ==
    With(local_to_seconds(bld, zone, self.year, self.month, self.day,
                          self.hour, self.minute, self.second, 0),
         LAMBDA total_sec :
        IF total_sec.st # "ok" THEN total_sec
        ELSE IF total_sec.v = ZInt(-1) THEN Fail("out_of_range")
        ELSE Ok(ZAdd(ZMul(ZSub(total_sec.v, kEpoch), ZInt(1000000)),
                     ZInt(self.microsecond))))

\* datetime::fromtimestamp(std::chrono::microseconds timestamp): the count is
\* converted to unsigned long by `/ 1000000UL` and `% 1000000UL`
fromtimestamp(zone, ts) ==
    With(IF ts.neg THEN ZAdd(ts, ZTwo64) ELSE ts, LAMBDA count :
    With(localtime_r(zone, ZTruncDiv(count, ZInt(1000000))), LAMBDA tm :
        datetime7(tm.tm_year + 1900, tm.tm_mon + 1, tm.tm_mday, tm.tm_hour,
                  tm.tm_min, IF tm.tm_sec > 59 THEN 59 ELSE tm.tm_sec,
                  ZToInt(ZFloorMod(count, ZInt(1000000))))))

\* the zones of the local-offset resolver: UTC, and the 2021 transitions of
\* New York (-5h / -4h) and Berlin (+1h / +2h), forward and back, and the
\* day Samoa skipped in 2011 (-10h to +14h)
UTC == [at |-> 0, before |-> 0, after |-> 0]

StampZones ==
    {UTC,
     [at |-> 1615705200, before |-> -18000, after |-> -14400],
     [at |-> 1636264800, before |-> -14400, after |-> -18000],
     [at |-> 1616893200, before |-> 3600, after |-> 7200],
     [at |-> 1635642000, before |-> 7200, after |-> 3600],
     [at |-> 1325239200, before |-> -36000, after |-> 50400]}

\* the wall-clock datetimes timestamp() is called on: the hours around each
\* transition, and the ends of the range
StampDatetimes ==
    {set_datetime(day[1], day[2], day[3], h, m, 0, 0) :
        day \in {<<2021, 3, 14>>, <<2021, 11, 7>>, <<2021, 3, 28>>,
                 <<2021, 10, 31>>},
        h \in 0..4, m \in {0, 30}}
    \cup {set_datetime(2011, 12, d, h, 0, 0, 0) : d \in 29..31, h \in {0, 12}}
    \cup {set_datetime(2021, 3, 14, 2, 59, 59, 999999),
          set_datetime(2021, 11, 7, 1, 59, 59, 999999),
          set_datetime(2021, 8, 31, 15, 59, 55, 123456),
          set_datetime(1970, 1, 1, 0, 0, 0, 0),
          set_datetime(1969, 12, 31, 23, 59, 59, 999999),
          set_datetime(1, 1, 2, 0, 0, 0, 0),
          set_datetime(9999, 12, 30, 23, 59, 59, 999999)}

\* the instants fromtimestamp() is called on, as <<days since 1970-01-01,
\* second of the day, microsecond>>
StampInstants ==
    {<<0, 0, 0>>, <<0, 0, 1>>, <<0, 0, 999999>>, <<0, 1, 0>>, <<0, 1, 500000>>,
     <<18870, 57595, 123456>>, <<-1, 86399, 999999>>, <<-1, 86399, 0>>,
     <<-1, 86398, 500000>>, <<-1, 0, 0>>, <<-719161, 0, 0>>,
     <<2932895, 86399, 999999>>, <<18700, 25200, 0>>, <<18700, 25199, 999999>>,
     <<18938, 21600, 0>>, <<18938, 21599, 0>>}

\* the microsecond count of an instant
StampOf(i) ==
    ZAdd(ZMul(ZAdd(ZMul(ZInt(i[1]), ZInt(86400)), ZInt(i[2])), ZInt(1000000)),
         ZInt(i[3]))

StampInit ==
    /\ dt_out = NoDateOut
    /\ \E zone \in StampZones :
          \/ /\ dt_pc = "wall"
             /\ dt_in = <<zone>>
             /\ dt_a \in StampDatetimes
          \/ /\ dt_pc = "instant"
             /\ \E i \in StampInstants : dt_in = <<zone, i>>
             /\ dt_a = <<>>

\* a.timestamp()
Timestamp ==
    /\ dt_pc = "wall"
    /\ \E bld \in Builds :
          \E r \in {timestamp(bld, dt_in[1], dt_a)} :
              /\ dt_out' = DateOut("datetime", "timestamp", r)
              /\ dt_pc' = After(r.st, "stamped")
    /\ UNCHANGED <<dt_in, dt_a, cal_vars, td_vars>>

\* datetime::fromtimestamp(a.timestamp())
FromTimestampBack ==
    /\ dt_pc = "stamped"
    /\ \E r \in {fromtimestamp(dt_in[1], dt_out.v)} :
          /\ dt_out' = DateOut("datetime", "fromtimestamp of timestamp", r)
          /\ dt_pc' = After(r.st, "done")
    /\ UNCHANGED <<dt_in, dt_a, cal_vars, td_vars>>

\* a = datetime::fromtimestamp(ts)
FromTimestamp ==
    /\ dt_pc = "instant"
    /\ \E r \in {fromtimestamp(dt_in[1], StampOf(dt_in[2]))} :
          /\ dt_out' = DateOut("datetime", "fromtimestamp", r)
          /\ dt_a' = IF r.st = "ok" THEN r.v ELSE dt_a
          /\ dt_pc' = After(r.st, "built")
    /\ UNCHANGED <<dt_in, cal_vars, td_vars>>

StampNext == Timestamp \/ FromTimestampBack \/ FromTimestamp

InitStamp == StampInit /\ OthersIdle

SpecStamp == InitStamp /\ [][StampNext]_vars

(***************************************************************************)
(* The packed storage of date, time and datetime: data_, an array of       *)
(* unsigned char, written by the setters, read by the accessors and        *)
(* compared element by element by the defaulted operator<=>.               *)
(***************************************************************************)
\* static_cast<unsigned char>(x)
unsigned_char(x) == x % 256

\* set_year with the two bytes of the year in the other order
set_year_low_first(year) ==
    <<unsigned_char(year), unsigned_char(year \div 256)>>

\* set_year: data_[0], data_[1]
set_year(year) == <<unsigned_char(year \div 256), unsigned_char(year)>>

\* set_microsecond: the three bytes of data_ it writes
set_microsecond(microsecond) ==
    <<unsigned_char(microsecond \div 65536), unsigned_char(microsecond \div 256),
      unsigned_char(microsecond)>>

\* data_ of date after set_fileds(year, month, day)
date_data(year, month, day) ==
    set_year(year) \o <<unsigned_char(month), unsigned_char(day)>>

\* data_ of time after its four setters
time_data(hour, minute, second, usecond) ==
    <<unsigned_char(hour), unsigned_char(minute), unsigned_char(second)>>
    \o set_microsecond(usecond)

\* data_ of datetime after its seven setters
datetime_data(year, month, day, hour, minute, second, usecond) ==
    date_data(year, month, day) \o time_data(hour, minute, second, usecond)

\* the accessors of date: year(), month(), day()
date_fields(data) == <<data[1] * 256 + data[2], data[3], data[4]>>

\* the accessors of time: hour(), minute(), second(), microsecond()
time_fields(data) ==
    <<data[1], data[2], data[3], data[4] * 65536 + data[5] * 256 + data[6]>>

\* the accessors of datetime
datetime_fields(data) ==
    <<data[1] * 256 + data[2], data[3], data[4], data[5], data[6], data[7],
      data[8] * 65536 + data[9] * 256 + data[10]>>

\* the constructors, checked, of the three classes from a tuple of fields
packed_new(cls, f) ==
    CASE cls = "date" ->
            IF check_date_args(f[1], f[2], f[3])
            THEN Ok(date_data(f[1], f[2], f[3])) ELSE Fail("out_of_range")
      [] cls = "time" ->
            IF check_time_args(f[1], f[2], f[3], f[4])
            THEN Ok(time_data(f[1], f[2], f[3], f[4]))
            ELSE Fail("out_of_range")
      [] cls = "datetime" ->
            IF ~check_date_args(f[1], f[2], f[3]) THEN Fail("out_of_range")
            ELSE IF ~check_time_args(f[4], f[5], f[6], f[7])
            THEN Fail("out_of_range")
            ELSE Ok(datetime_data(f[1], f[2], f[3], f[4], f[5], f[6], f[7]))

packed_fields(cls, data) ==
    CASE cls = "date" -> date_fields(data)
      [] cls = "time" -> time_fields(data)
      [] cls = "datetime" -> datetime_fields(data)

\* the defaulted operator<=> on data_, from element i on: -1 for less, 0 for
\* equal, 1 for greater
RECURSIVE spaceship(_, _, _)
spaceship(lhs, rhs, i) ==
    IF i > Len(lhs) THEN 0
    ELSE IF lhs[i] < rhs[i] THEN -1
    ELSE IF lhs[i] > rhs[i] THEN 1
    ELSE spaceship(lhs, rhs, i + 1)

\* datetime::date() and datetime::time(), unchecked constructors on the
\* accessors' values
datetime_date(data) ==
    With(datetime_fields(data), LAMBDA f : date_data(f[1], f[2], f[3]))

datetime_time(data) ==
    With(datetime_fields(data), LAMBDA f : time_data(f[4], f[5], f[6], f[7]))

\* datetime::combine(d, t)
combine(d, t) ==
    packed_new("datetime", date_fields(d) \o time_fields(t))

\* the fields tried: years and microseconds on both sides of a byte of data_
PackedDates ==
    {<<y, m, d>> : y \in {1, 255, 256, 257, 511, 512, 2021, 9999},
                   m \in {1, 2, 12}, d \in {1, 28}}

PackedTimes ==
    {<<h, m, s, us>> : h \in {0, 23}, m \in {0, 59}, s \in {0, 59},
                       us \in {0, 255, 256, 65535, 65536, 999999}}

PackedDatetimes ==
    {d \o t : d \in {<<1, 1, 1>>, <<255, 12, 28>>, <<256, 1, 1>>,
                     <<2021, 8, 31>>, <<9999, 12, 31>>},
              t \in {<<0, 0, 0, 0>>, <<0, 0, 0, 65536>>, <<0, 0, 1, 255>>,
                     <<0, 59, 0, 256>>, <<23, 0, 0, 65535>>,
                     <<23, 59, 59, 999999>>}}

PackedFields(cls) ==
    CASE cls = "date" -> PackedDates
      [] cls = "time" -> PackedTimes
      [] cls = "datetime" -> PackedDatetimes

PackedInit ==
    /\ dt_pc = "fields"
    /\ \E cls \in {"date", "time", "datetime"} :
          \E f \in PackedFields(cls) : dt_in = <<cls, f>>
    /\ dt_a = <<>>
    /\ dt_out = NoDateOut

\* a = date(...), time(...) or datetime(...) of the fields
PackedNew ==
    /\ dt_pc = "fields"
    /\ \E r \in {packed_new(dt_in[1], dt_in[2])} :
          /\ dt_out' = DateOut(dt_in[1], "new", r)
          /\ dt_a' = IF r.st = "ok" THEN r.v ELSE dt_a
          /\ dt_pc' = After(r.st, "packed")
    /\ UNCHANGED <<dt_in, cal_vars, td_vars>>

\* a.year(), a.month(), ...: every accessor of a
PackedAccessors ==
    /\ dt_pc = "packed"
    /\ dt_out' = DateOut(dt_in[1], "accessors", Ok(packed_fields(dt_in[1], dt_a)))
    /\ dt_pc' = "done"
    /\ UNCHANGED <<dt_in, dt_a, cal_vars, td_vars>>

\* a <=> b for b of the same class
PackedCompare ==
    /\ dt_pc = "packed"
    /\ \E f \in PackedFields(dt_in[1]) :
          \E b \in {packed_new(dt_in[1], f)} :
              /\ b.st = "ok"
              /\ dt_out' = DateOut(dt_in[1], "<=>",
                                   Ok([rhs |-> f, cmp |-> spaceship(dt_a, b.v, 1)]))
    /\ dt_pc' = "done"
    /\ UNCHANGED <<dt_in, dt_a, cal_vars, td_vars>>

\* datetime::combine(a.date(), a.time()) for a datetime a
PackedCombine ==
    /\ dt_pc = "packed"
    /\ dt_in[1] = "datetime"
    /\ \E r \in {combine(datetime_date(dt_a), datetime_time(dt_a))} :
          /\ dt_out' = DateOut("datetime", "combine", r)
          /\ dt_pc' = After(r.st, "done")
    /\ UNCHANGED <<dt_in, dt_a, cal_vars, td_vars>>

PackedNext == PackedNew \/ PackedAccessors \/ PackedCompare \/ PackedCombine

InitPacked == PackedInit /\ OthersIdle

SpecPacked == InitPacked /\ [][PackedNext]_vars

(***************************************************************************)
(* The directives %j, %U and %W of datetime::strftime on every day of      *)
(* years that begin on each day of the week, leap years among them.        *)
(***************************************************************************)
\* 2018 begins on a Monday, 2019 on a Tuesday, 2020 (leap) on a Wednesday,
\* 2015 on a Thursday, 2021 on a Friday, 2022 on a Saturday, 2017 on a Sunday,
\* 2012 (leap) on a Sunday, 2024 (leap) on a Monday
WeekYears == {2012, 2015, 2017, 2018, 2019, 2020, 2021, 2022, 2024}

WeekDatetimes ==
    {With(ord_to_ymd(o), LAMBDA d : set_datetime(d.year, d.month, d.day, 0, 0, 0, 0)) :
        o \in UNION {ymd_to_ord(y, 1, 1)..ymd_to_ord(y, 12, 31) : y \in WeekYears}}

WeekFormats == {<<"%", "j">>, <<"%", "U">>, <<"%", "W">>}

WeekInit ==
    /\ dt_pc = "datetime"
    /\ dt_in = <<>>
    /\ dt_a \in WeekDatetimes
    /\ dt_out = NoDateOut

\* a.strftime("%j"), a.strftime("%U"), a.strftime("%W")
StrftimeWeek ==
    /\ dt_pc = "datetime"
    /\ \E fmt \in WeekFormats :
          \E r \in {strftime(dt_a, fmt)} :
              /\ dt_in' = <<fmt>>
              /\ dt_out' = DateOut("datetime", "strftime", r)
              /\ dt_pc' = After(r.st, "done")
    /\ UNCHANGED <<dt_a, cal_vars, td_vars>>

WeekNext == StrftimeWeek

InitWeek == WeekInit /\ OthersIdle

SpecWeek == InitWeek /\ [][WeekNext]_vars

\* the length of a month as the calendar has it: February has 29 days exactly
\* when the year is divisible by 4 and not by 100, or divisible by 400
RefDaysInMonth(y, m) ==
    IF m = 2
    THEN IF (y % 4 = 0 /\ y % 100 # 0) \/ y % 400 = 0 THEN 29 ELSE 28
    ELSE IF m \in {4, 6, 9, 11} THEN 30 ELSE 31

RefValidDate(y, m, d) ==
    /\ 1 <= y /\ y <= 9999
    /\ 1 <= m /\ m <= 12
    /\ 1 <= d /\ d <= RefDaysInMonth(y, m)

RefValidTime(h, mi, s, us) ==
    /\ 0 <= h /\ h <= 23
    /\ 0 <= mi /\ mi <= 59
    /\ 0 <= s /\ s <= 59
    /\ 0 <= us /\ us <= 999999

(***************************************************************************)
(* C11: date(y, m, d) and datetime(y, m, d, h, mi, s, us) succeed exactly  *)
(* when every field is in range (1 <= y <= 9999, 1 <= m <= 12, 1 <= d <=   *)
(* length of the month, 0 <= h <= 23, 0 <= mi <= 59, 0 <= s <= 59,         *)
(* 0 <= us <= 999999) and then hold the fields given; otherwise they throw *)
(* std::out_of_range and no object exists.                                 *)
(***************************************************************************)
C11_ValidatedConstructors ==
    dt_out.op = "new" =>
        LET valid == /\ RefValidDate(dt_in[1], dt_in[2], dt_in[3])
                     /\ dt_out.cls = "datetime" =>
                            RefValidTime(dt_in[4], dt_in[5], dt_in[6], dt_in[7])
        IN  IF valid
            THEN /\ dt_out.st = "ok"
                 /\ dt_pc = dt_out.cls
                 /\ dt_a = dt_out.v
                 /\ <<dt_a.year, dt_a.month, dt_a.day>>
                        = <<dt_in[1], dt_in[2], dt_in[3]>>
                 /\ dt_out.cls = "datetime" =>
                        <<dt_a.hour, dt_a.minute, dt_a.second,
                          dt_a.microsecond>>
                            = <<dt_in[4], dt_in[5], dt_in[6], dt_in[7]>>
            ELSE /\ dt_out.st = "out_of_range"
                 /\ dt_pc = "thrown"
                 /\ dt_a = <<>>

\* date(2024, 2, 29) was built: 2024 is a leap year
C11_Witness ==
    /\ dt_out.cls = "date" /\ dt_out.op = "new" /\ dt_out.st = "ok"
    /\ dt_in = <<2024, 2, 29>>
    /\ dt_a = [year |-> 2024, month |-> 2, day |-> 29]

(***************************************************************************)
(* C12: for a valid date D and a normalized timedelta t, D + t and D += t  *)
(* (D - t and D -= t) give date::fromordinal(D.toordinal() + t.days())     *)
(* (minus t.days()) when that ordinal is in [1, 3652059], whatever the     *)
(* seconds and microseconds of t, and throw std::out_of_range otherwise,   *)
(* leaving D as it was; so on the one-day paths of normalize_y_m_d as on   *)
(* its ordinal path.                                                       *)
(***************************************************************************)
C12_DateArithmeticByOrdinal ==
    (dt_out.cls = "date" /\ dt_out.op \in {"+", "-", "+=", "-="}) =>
        LET D   == dt_in[1]
            t   == dt_in[2]
            ord == IF dt_out.op \in {"+", "+="}
                   THEN toordinal(D) + t.days
                   ELSE toordinal(D) - t.days
        IN  IF 1 <= ord /\ ord <= kMaxOrdinal
            THEN /\ dt_out.st = "ok"
                 /\ dt_out.v = date_fromordinal(ord).v
                 /\ dt_a = IF dt_out.op \in {"+=", "-="} THEN dt_out.v ELSE D
            ELSE /\ dt_out.st = "out_of_range"
                 /\ dt_pc = "thrown"
                 /\ dt_a = D

\* the one-day rollback: 2024-03-01 plus -1 day, 86399 s, 999999 us is
\* 2024-02-29
C12_Witness ==
    /\ dt_out.cls = "date" /\ dt_out.op = "+" /\ dt_out.st = "ok"
    /\ dt_in = <<[year |-> 2024, month |-> 3, day |-> 1],
                 Delta(-1, 86399, 999999)>>
    /\ dt_out.v = [year |-> 2024, month |-> 2, day |-> 29]

\* the instant of a datetime as <<days, seconds, microseconds>> since
\* 0001-01-01T00:00:00, each of the last two within its unit
RefInstant(dt) ==
    <<toordinal(dt) - 1,
      dt.hour * 3600 + dt.minute * 60 + dt.second,
      dt.microsecond>>

\* the instant <<d, s, us>> with s and us carried into their units
RefCarry(d, s, us) ==
    LET s2 == s + (us \div 1000000)
    IN  <<d + (s2 \div 86400), s2 % 86400, us % 1000000>>

\* the instant of dt shifted by sign times the timedelta t
RefShift(dt, sign, t) ==
    LET i == RefInstant(dt)
    IN  RefCarry(i[1] + sign * t.days, i[2] + sign * t.seconds,
                 i[3] + sign * t.microseconds)

(***************************************************************************)
(* C13: for a valid datetime dt and a normalized timedelta t, dt + t and   *)
(* dt += t (dt - t and dt -= t) return the datetime whose instant is that  *)
(* of dt plus (minus) t exactly, when that instant is within               *)
(* [datetime.min, datetime.max], and then (dt + t) - dt == t and           *)
(* dt - (dt - t) == t; otherwise they throw std::out_of_range and leave dt *)
(* as it was.                                                              *)
(***************************************************************************)
C13_DatetimeArithmeticExact ==
    (dt_out.cls = "datetime" /\ dt_out.op \in {"+", "-", "+=", "-="}) =>
        LET dt   == dt_in[1]
            t    == dt_in[2]
            plus == dt_out.op \in {"+", "+="}
            want == RefShift(dt, IF plus THEN 1 ELSE -1, t)
        IN  IF 0 <= want[1] /\ want[1] < kMaxOrdinal
            THEN /\ dt_out.st = "ok"
                 /\ check_date_args(dt_out.v.year, dt_out.v.month,
                                    dt_out.v.day)
                 /\ check_time_args(dt_out.v.hour, dt_out.v.minute,
                                    dt_out.v.second, dt_out.v.microsecond)
                 /\ RefInstant(dt_out.v) = want
                 /\ \A bld \in Builds :
                        IF plus
                        THEN datetime_diff(bld, dt_out.v, dt) = Ok(t)
                        ELSE datetime_diff(bld, dt, dt_out.v) = Ok(t)
                 /\ dt_a = IF dt_out.op \in {"+=", "-="} THEN dt_out.v ELSE dt
            ELSE /\ dt_out.st = "out_of_range"
                 /\ dt_pc = "thrown"
                 /\ dt_a = dt

\* 2024-02-29T23:59:59.999999 plus one microsecond is 2024-03-01T00:00:00
C13_Witness ==
    /\ dt_out.cls = "datetime" /\ dt_out.op = "+" /\ dt_out.st = "ok"
    /\ dt_in = <<set_datetime(2024, 2, 29, 23, 59, 59, 999999),
                 Delta(0, 0, 1)>>
    /\ dt_out.v = set_datetime(2024, 3, 1, 0, 0, 0, 0)

(***************************************************************************)
(* C14: for valid dates a and b, a - b returns, and never throws, the      *)
(* timedelta of a.toordinal() - b.toordinal() days, 0 seconds and 0        *)
(* microseconds, at most 3652058 days either way, and b + (a - b) is a.    *)
(***************************************************************************)
C14_DateDifference ==
    (dt_out.cls = "date" /\ dt_out.op = "diff") =>
        LET a == dt_in[1]
            b == dt_in[2]
        IN  /\ dt_out.st = "ok"
            /\ dt_out.v = Delta(toordinal(a) - toordinal(b), 0, 0)
            /\ -(kMaxOrdinal - 1) <= dt_out.v.days
            /\ dt_out.v.days <= kMaxOrdinal - 1
            /\ \A bld \in Builds : date_add(bld, b, dt_out.v) = Ok(a)

\* date(2021, 8, 31) - date(2021, 8, 1) is timedelta(30)
C14_Witness ==
    /\ dt_out.cls = "date" /\ dt_out.op = "diff" /\ dt_out.st = "ok"
    /\ dt_in = <<[year |-> 2021, month |-> 8, day |-> 31],
                 [year |-> 2021, month |-> 8, day |-> 1]>>
    /\ dt_out.v = Delta(30, 0, 0)

\* the ISO years of 53 weeks: those whose January 1 is a Thursday, and the
\* leap years whose January 1 is a Wednesday
RefLongIsoYear(y) ==
    LET jan1 == (toordinal([year |-> y, month |-> 1, day |-> 1]) - 1) % 7
    IN  jan1 = 3 \/ (jan1 = 2 /\ RefDaysInMonth(y, 2) = 29)

(***************************************************************************)
(* C15: for a valid date D, date::fromisocalendar(D.isocalendar()) returns *)
(* D; and when date::fromisocalendar(y, w, wd) returns a date R,           *)
(* R.isocalendar() is (y, w, wd).                                          *)
(***************************************************************************)
C15_IsoCalendarRoundTrip ==
    /\ dt_out.op = "fromisocalendar of isocalendar" =>
          dt_out.st = "ok" /\ dt_out.v = dt_in[1]
    /\ dt_out.op = "isocalendar of fromisocalendar" =>
          dt_out.st = "ok" /\ dt_out.v = dt_in

\* 0820-12-31 (as 2020-12-31, 1200 years on) is in week 53 of 820 and is
\* built again from (820, 53, 4)
C15_Witness ==
    /\ dt_out.op = "fromisocalendar of isocalendar" /\ dt_out.st = "ok"
    /\ dt_in = <<[year |-> 820, month |-> 12, day |-> 31],
                 IsoCalendarDate(820, 53, 4)>>
    /\ dt_out.v = dt_in[1]

(***************************************************************************)
(* C16: D.isocalendar() returns a week in 1..53 and a weekday in 1..7, the *)
(* weekday being D.isoweekday(); it returns week 53 only for an ISO year   *)
(* of 53 weeks (January 1 a Thursday, or a Wednesday in a leap year); and  *)
(* date::fromisocalendar, given a year in [1, 9999] and a weekday in 1..7, *)
(* takes week 53 for those years and throws std::out_of_range for week 53  *)
(* of every other year.                                                    *)
(***************************************************************************)
C16_IsoWeekRange ==
    /\ dt_out.op \in {"isocalendar", "isocalendar of fromisocalendar"} =>
          /\ dt_out.st = "ok"
          /\ dt_out.v.week \in 1..53
          /\ dt_out.v.weekday \in 1..7
          /\ dt_out.v.weekday = isoweekday(dt_a)
          /\ dt_out.v.week = 53 => RefLongIsoYear(dt_out.v.year)
    /\ (/\ dt_out.op = "fromisocalendar"
        /\ dt_in.week = 53
        /\ dt_in.year \in kMinYear..kMaxYear
        /\ dt_in.weekday \in 1..7) =>
          IF RefLongIsoYear(dt_in.year)
          THEN dt_out.st = "ok"
          ELSE dt_out.st = "out_of_range" /\ dt_pc = "thrown"

\* week 53 of 820, a leap year whose January 1 is a Wednesday, was taken
C16_Witness ==
    /\ dt_out.op = "fromisocalendar" /\ dt_out.st = "ok"
    /\ dt_in = IsoCalendarDate(820, 53, 7)
    /\ dt_a = [year |-> 821, month |-> 1, day |-> 3]

\* the shape of a text: "d" for a digit, "s" for a sign, else the character
RefShape(s) ==
    [i \in 1..Len(s) |->
        IF s[i] \in {"0", "1", "2", "3", "4", "5", "6", "7", "8", "9"} THEN "d"
        ELSE IF s[i] \in {"+", "-"} THEN "s" ELSE s[i]]

\* the number the digits s[from..to] write
RECURSIVE RefNumber(_, _, _)
RefNumber(s, from, to) ==
    IF to < from THEN 0
    ELSE RefNumber(s, from, to - 1) * 10
         + (CHOOSE n \in 0..9 : DigitChars[n + 1] = s[to])

(***************************************************************************)
(* C17: for a valid date D, D.isoformat() is the 10 characters YYYY-MM-DD, *)
(* the year zero-padded to 4 and the month and day to 2 digits, and        *)
(* date::fromisoformat of it returns D; date::fromisoformat throws         *)
(* std::invalid_argument for a string that is not 10 characters long or    *)
(* has a non-digit where a digit belongs or another character than '-' at  *)
(* positions 4 and 7, and hands every other string's three numbers to the  *)
(* validated constructor.                                                  *)
(***************************************************************************)
C17_DateIsoformat ==
    /\ (dt_out.cls = "date" /\ dt_out.op = "isoformat") =>
          /\ Len(dt_out.v) = 10
          /\ RefShape(dt_out.v)
                = <<"d", "d", "d", "d", "s", "d", "d", "s", "d", "d">>
          /\ dt_out.v[5] = "-" /\ dt_out.v[8] = "-"
          /\ RefNumber(dt_out.v, 1, 4) = dt_a.year
          /\ RefNumber(dt_out.v, 6, 7) = dt_a.month
          /\ RefNumber(dt_out.v, 9, 10) = dt_a.day
    /\ (dt_out.cls = "date" /\ dt_out.op = "fromisoformat of isoformat") =>
          dt_out.st = "ok" /\ dt_out.v = dt_a
    /\ (dt_out.cls = "date" /\ dt_out.op = "fromisoformat") =>
          IF /\ Len(dt_in) = 10
             /\ RefShape(dt_in)
                   = <<"d", "d", "d", "d", "s", "d", "d", "s", "d", "d">>
             /\ dt_in[5] = "-" /\ dt_in[8] = "-"
          THEN IF RefValidDate(RefNumber(dt_in, 1, 4), RefNumber(dt_in, 6, 7),
                               RefNumber(dt_in, 9, 10))
               THEN /\ dt_out.st = "ok"
                    /\ dt_out.v = [year |-> RefNumber(dt_in, 1, 4),
                                   month |-> RefNumber(dt_in, 6, 7),
                                   day |-> RefNumber(dt_in, 9, 10)]
               ELSE dt_out.st = "out_of_range"
          ELSE dt_out.st = "invalid_argument" /\ dt_pc = "thrown"

\* date(1, 1, 1) is written "0001-01-01" and read back
C17_Witness ==
    /\ dt_out.cls = "date" /\ dt_out.op = "fromisoformat of isoformat"
    /\ dt_in = <<"0", "0", "0", "1", "-", "0", "1", "-", "0", "1">>
    /\ dt_out.st = "ok"
    /\ dt_a = [year |-> 1, month |-> 1, day |-> 1]

\* the number of characters a format of datetime::strptime reads, from
\* fmt[i] on: 4 for %Y, 6 for %f, 2 for %m %d %H %M %S, 1 for %% and for a
\* character; -1 when the format has another directive
RECURSIVE RefWidth(_, _)
RefWidth(fmt, i) ==
    IF i > Len(fmt) THEN 0
    ELSE IF fmt[i] # "%"
    THEN IF RefWidth(fmt, i + 1) < 0 THEN -1 ELSE 1 + RefWidth(fmt, i + 1)
    ELSE IF i = Len(fmt)
            \/ fmt[i + 1] \notin {"Y", "f", "m", "d", "H", "M", "S", "%"}
            \/ RefWidth(fmt, i + 2) < 0
    THEN -1
    ELSE RefWidth(fmt, i + 2)
         + (IF fmt[i + 1] = "Y" THEN 4 ELSE IF fmt[i + 1] = "f" THEN 6
            ELSE IF fmt[i + 1] = "%" THEN 1 ELSE 2)

(***************************************************************************)
(* C18: datetime::strptime(text, format) fails when text is longer than    *)
(* what the format reads (input remains after the format is consumed), as  *)
(* it does when text is shorter (format remains after the input is         *)
(* exhausted): it never returns a datetime for a text that is not exactly  *)
(* of the width of the format.                                             *)
(***************************************************************************)
C18_StrptimeWholeInput ==
    (/\ dt_out.cls = "datetime" /\ dt_out.op = "strptime"
     /\ RefWidth(dt_in[2], 1) >= 0
     /\ Len(dt_in[1]) # RefWidth(dt_in[2], 1)) =>
        dt_out.st # "ok"

(***************************************************************************)
(* C19: for a valid datetime dt and F = "%Y/%m/%d %H:%M:%S.%f",            *)
(* dt.strftime(F) is 26 characters and datetime::strptime of it with F     *)
(* returns dt; and strptime("2021/08/31 15:59:55.123456", F) is            *)
(* datetime(2021, 8, 31, 15, 59, 55, 123456).                              *)
(***************************************************************************)
C19_StrftimeStrptimeRoundTrip ==
    /\ (dt_out.op = "strftime" /\ dt_in[1] = FullFormat) =>
          dt_out.st = "ok" /\ Len(dt_out.v) = 26
    /\ (dt_out.op = "strptime of strftime" /\ dt_in[2] = FullFormat) =>
          dt_out.st = "ok" /\ dt_out.v = dt_a
    /\ (dt_out.op = "strptime" /\ dt_in = <<FullText, FullFormat>>) =>
          /\ dt_out.st = "ok"
          /\ dt_out.v = [year |-> 2021, month |-> 8, day |-> 31,
                         hour |-> 15, minute |-> 59, second |-> 55,
                         microsecond |-> 123456]

\* datetime(2021, 8, 31, 5, 9, 5, 6) is written "2021/08/31 05:09:05.000006"
\* and read back
C19_Witness ==
    /\ dt_out.op = "strptime of strftime" /\ dt_out.st = "ok"
    /\ dt_in[2] = FullFormat
    /\ RefNumber(dt_in[1], 21, 26) = 6
    /\ dt_a = [year |-> 2021, month |-> 8, day |-> 31, hour |-> 5,
               minute |-> 9, second |-> 5, microsecond |-> 6]
    /\ dt_out.v = dt_a

\* the shapes of HH[:MM[:SS]][.fff|.ffffff] and of the offset that may
\* follow, +HH:MM[:SS[.ffffff]] or the same with '-'
RefTimeShapes ==
    {a \o b \o c :
        a \in {<<"d", "d">>, <<"d", "d", ":", "d", "d">>,
               <<"d", "d", ":", "d", "d", ":", "d", "d">>},
        b \in {<<>>, <<".", "d", "d", "d">>,
               <<".", "d", "d", "d", "d", "d", "d">>},
        c \in {<<>>, <<"s", "d", "d", ":", "d", "d">>,
               <<"s", "d", "d", ":", "d", "d", ":", "d", "d">>,
               <<"s", "d", "d", ":", "d", "d", ":", "d", "d", ".",
                 "d", "d", "d", "d", "d", "d">>}}

(***************************************************************************)
(* C20: time::fromisoformat returns a time only for a string of the form   *)
(* HH[:MM[:SS]][.fff|.ffffff] with an optional offset +HH:MM[:SS[.ffffff]] *)
(* or -HH:MM[:SS[.ffffff]]; for every other string, one with ':' before    *)
(* the fraction among them, it fails; and time::fromisoformat of           *)
(* t.isoformat() is t for a valid time t.                                  *)
(***************************************************************************)
C20_TimeFromIsoformat ==
    /\ (dt_out.cls = "time" /\ dt_out.op = "fromisoformat"
        /\ RefShape(dt_in) \notin RefTimeShapes) =>
          dt_out.st # "ok"
    /\ (dt_out.cls = "time" /\ dt_out.op = "fromisoformat of isoformat") =>
          dt_out.st = "ok" /\ dt_out.v = dt_a

\* the exact microsecond count of the seven fields of a constructor call
\* <<days, seconds, microseconds, milliseconds, minutes, hours, weeks>>
RefTotal7(args) ==
    ZAdd(ZAdd(ZAdd(ZMul(ZInt(args[1]), ExactUsPerDay),
                   ZMul(ZInt(args[2]), ZInt(1000000))),
              ZAdd(ZInt(args[3]), ZMul(ZInt(args[4]), ZInt(1000)))),
         ZAdd(ZAdd(ZMul(ZInt(args[5]), ZInt(60000000)),
                   ZMul(ZMul(ZInt(args[6]), ZInt(3600)), ZInt(1000000))),
              ZMul(ZMul(ZInt(args[7]), ZInt(7)), ExactUsPerDay)))

(***************************************************************************)
(* C22: timedelta(days, seconds, microseconds, milliseconds, minutes,      *)
(* hours, weeks) returns the normalized timedelta whose total is exactly   *)
(* the microsecond count of its seven fields when the days of that count   *)
(* are within [-999999999, 999999999], and throws std::out_of_range        *)
(* otherwise; it never returns a value made from a wrapped 64-bit sum.     *)
(***************************************************************************)
C22_Constructor7Exact ==
    out.op = "timedelta7" =>
        IF InDayRange(RefTotal7(out.args))
        THEN /\ out.st = "ok"
             /\ Normalized(out.v)
             /\ ExactTotal(out.v) = RefTotal7(out.args)
        ELSE out.st = "out_of_range"

(***************************************************************************)
(* C23: timedelta(days, seconds, microseconds) returns the normalized      *)
(* timedelta whose total is exactly days*86400e6 + seconds*1e6 +           *)
(* microseconds when the days of that count are within                     *)
(* [-999999999, 999999999], and throws std::out_of_range otherwise, also   *)
(* for arguments near INT_MAX and INT_MIN: no carry of normalize_pair      *)
(* overflows int; and an already normalized triple is returned unchanged.  *)
(***************************************************************************)
C23_Constructor3Exact ==
    out.op = "timedelta3" =>
        With(ExactTotal(Delta(out.args[1], out.args[2], out.args[3])),
             LAMBDA exact :
                IF InDayRange(exact)
                THEN /\ out.st = "ok"
                     /\ Normalized(out.v)
                     /\ ExactTotal(out.v) = exact
                ELSE out.st = "out_of_range")

(***************************************************************************)
(* C25: timedelta::repr() prints the fields in the constructor's order,    *)
(* days, seconds, microseconds, and leaves out only trailing zero fields:  *)
(* "timedelta(d, s, us)" when microseconds # 0, "timedelta(d, s)" when     *)
(* microseconds = 0 and seconds # 0, "timedelta(d)" when both are 0.       *)
(***************************************************************************)
C25_TimedeltaRepr ==
    (dt_out.cls = "timedelta" /\ dt_out.op = "repr") =>
        dt_out.v = FormatCall(IF dt_a.microseconds # 0
                              THEN <<dt_a.days, dt_a.seconds, dt_a.microseconds>>
                              ELSE IF dt_a.seconds # 0
                              THEN <<dt_a.days, dt_a.seconds>>
                              ELSE <<dt_a.days>>)

(***************************************************************************)
(* C26: for a normalized timedelta d, -d throws std::out_of_range or is    *)
(* the normalized timedelta whose total is minus the total of d; then      *)
(* -(-d) is d and d + (-d) is the zero timedelta; d.abs() is -d when       *)
(* d.days() < 0 and d otherwise, so an abs() that returns has days >= 0.   *)
(***************************************************************************)
C26_NegationAndAbs ==
    /\ out.op = "-a" =>
          \/ out.st = "out_of_range"
          \/ /\ out.st = "ok"
             /\ Normalized(out.v)
             /\ ExactTotal(out.v) = ZNeg(ExactTotal(out.lhs))
    /\ out.op = "-(-a)" => out.st = "ok" /\ out.v = out.lhs
    /\ out.op = "a + (-a)" => out.st = "ok" /\ out.v = Zero
    /\ out.op = "abs" =>
          IF out.lhs.days < 0
          THEN \/ out.st = "out_of_range"
               \/ /\ out.st = "ok"
                  /\ Normalized(out.v)
                  /\ ExactTotal(out.v) = ZNeg(ExactTotal(out.lhs))
                  /\ out.v.days >= 0
          ELSE out.st = "ok" /\ out.v = out.lhs

\* -(-d) has come back to d = (-1, 1, 1), by way of -d = (0, 86398, 999999)
C26_Witness ==
    /\ out.op = "-(-a)" /\ out.st = "ok"
    /\ da = Delta(-1, 1, 1) /\ db = Delta(0, 86398, 999999) /\ out.v = da

(***************************************************************************)
(* C27: timedelta::max() returns (999999999, 86399, 999999), the greatest  *)
(* timedelta, and timedelta::min() returns (-999999999, 0, 0), the least:  *)
(* every timedelta an operation returns lies between the two, and adding   *)
(* resolution() to the greatest timedelta throws std::out_of_range.        *)
(***************************************************************************)
C27_MinMax ==
    /\ out.op = "max" =>
          out.st = "ok" /\ out.v = Delta(999999999, 86399, 999999)
    /\ out.op = "min" => out.st = "ok" /\ out.v = Delta(-999999999, 0, 0)
    /\ (out.op \in {"timedelta3", "timedelta7", "min", "max", "resolution",
                    "+", "-", "-a", "abs"} /\ out.st = "ok") =>
          /\ timedelta_cmp(Delta(-999999999, 0, 0), out.v) <= 0
          /\ timedelta_cmp(out.v, Delta(999999999, 86399, 999999)) <= 0
    /\ (out.op = "+" /\ out.lhs = Delta(999999999, 86399, 999999)
        /\ out.rhs = Delta(0, 0, 1)) => out.st = "out_of_range"

\* what each operator of a timedelta a returns, by the name an operation of
\* SpecFrame records: binary operators and the compound assignments made of them
RefDeltaOp(bld, op, a, b, n) ==
    CASE op \in {"+", "+="} -> timedelta_add(bld, a, b)
      [] op \in {"-", "-="} -> timedelta_sub(bld, a, b)
      [] op \in {"*n", "*=n"} -> timedelta_mul(bld, a, n)
      [] op \in {"/n", "/=n"} -> timedelta_div_int(bld, a, n)
      [] op \in {"%", "%="} -> timedelta_mod(bld, a, b)

\* the same for a date or datetime a
RefDateOp(bld, cls, op, a, b) ==
    CASE cls = "date" /\ op \in {"+", "+="} -> date_add(bld, a, b)
      [] cls = "date" /\ op \in {"-", "-="} -> date_sub(bld, a, b)
      [] cls = "datetime" /\ op \in {"+", "+="} -> datetime_add(bld, a, b)
      [] cls = "datetime" /\ op \in {"-", "-="} -> datetime_sub(bld, a, b)

RefCompound == {"+=", "-=", "*=n", "/=n", "%="}

\* a step of an operation on the timedelta a keeps the frame
RefDeltaFrame ==
    td_pc' # td_pc =>
        /\ db' = db
        /\ out'.op \notin RefCompound => da' = da
        /\ (out'.op \in RefCompound /\ out'.st # "ok") => da' = da
        /\ (out'.op \in RefCompound /\ out'.st = "ok") =>
              \E bld \in Builds :
                  \E r \in {RefDeltaOp(bld, out'.op, da, db, out'.n)} :
                      r.st = "ok" /\ r.v = da'

\* a step of an operation on the date or datetime a keeps the frame
RefDateFrame ==
    dt_pc' # dt_pc =>
        /\ db' = db
        /\ dt_out'.op \notin RefCompound => dt_a' = dt_a
        /\ (dt_out'.op \in RefCompound /\ dt_out'.st # "ok") => dt_a' = dt_a
        /\ (dt_out'.op \in RefCompound /\ dt_out'.st = "ok") =>
              \E bld \in Builds :
                  \E r \in {RefDateOp(bld, dt_out'.cls, dt_out'.op, dt_a, db)} :
                      r.st = "ok" /\ r.v = dt_a'

(***************************************************************************)
(* C24: in any sequence of operations on a variable a, a compound          *)
(* assignment that fails (date and datetime += and -=, timedelta +=, -=,   *)
(* *=, /= and %=) leaves a as it was, a binary operator leaves both of its *)
(* operands as they were whether it fails or returns, and a compound       *)
(* assignment a op= b that returns leaves a equal to a op b.               *)
(***************************************************************************)
C24_FrameOfAssignments == [][RefDeltaFrame /\ RefDateFrame]_vars

\* the second operation on a = date(9999, 12, 31) was a += timedelta(1), which
\* threw std::out_of_range: a is still 9999-12-31
C24_Witness ==
    /\ dt_pc = FramePc("date", 2)
    /\ dt_out.op = "+=" /\ dt_out.st = "out_of_range"
    /\ dt_in = <<set_fileds(9999, 12, 31), Delta(1, 0, 0)>>
    /\ dt_a = set_fileds(9999, 12, 31)

\* the wall-clock fields of a datetime read as seconds since 1970-01-01 00:00
RefWall(dt) ==
    ZAdd(ZMul(ZInt(ymd_to_ord(dt.year, dt.month, dt.day) - 719163), ZInt(86400)),
         ZInt(dt.hour * 3600 + dt.minute * 60 + dt.second))

\* the UTC instants (seconds since 1970) that a zone renders to the wall
\* clock w: w - before when that is ahead of the transition, w - after when
\* that is at or past it
RefInstants(zone, w) ==
    {u \in {ZSub(w, ZInt(zone.before))} : ZLt(u, ZInt(zone.at))}
    \cup {u \in {ZSub(w, ZInt(zone.after))} : ~ZLt(u, ZInt(zone.at))}

\* the earlier of the two candidate instants w - before and w - after
RefEarlier(zone, w) ==
    IF zone.before >= zone.after THEN ZSub(w, ZInt(zone.before))
    ELSE ZSub(w, ZInt(zone.after))

\* the instant the fold flag's default selects for the wall clock w: the
\* earlier of the instants rendered to w, and in a gap the earlier candidate
RefResolve(zone, w) ==
    IF RefInstants(zone, w) = {} THEN RefEarlier(zone, w)
    ELSE CHOOSE u \in RefInstants(zone, w) :
            \A v \in RefInstants(zone, w) : ZLe(u, v)

(***************************************************************************)
(* C21: datetime::timestamp() returns the one UTC instant that the         *)
(* resolver renders to the datetime's wall-clock fields when there is one, *)
(* the earlier of the two when the fields are in a fold, and the earlier   *)
(* of the two candidates t - offset_before and t - offset_after when the   *)
(* fields are in a gap.                                                    *)
(***************************************************************************)
C21_TimestampResolution ==
    (dt_out.cls = "datetime" /\ dt_out.op = "timestamp") =>
        /\ dt_out.st = "ok"
        /\ dt_out.v = ZAdd(ZMul(RefResolve(dt_in[1], RefWall(dt_a)),
                                ZInt(1000000)),
                           ZInt(dt_a.microsecond))

\* the datetime of the instant <<days since 1970-01-01, second of the day,
\* microsecond>> in UTC
RefDatetimeOf(i) ==
    With(ord_to_ymd(719163 + i[1]), LAMBDA d :
        [year |-> d.year, month |-> d.month, day |-> d.day,
         hour |-> i[2] \div 3600, minute |-> (i[2] % 3600) \div 60,
         second |-> i[2] % 60, microsecond |-> i[3]])

(***************************************************************************)
(* C28: with the resolver at UTC, datetime::fromtimestamp(ts) is           *)
(* datetime(1970, 1, 1) + timedelta(microseconds = ts) for every ts within *)
(* years 1..9999, negative ones included: its seconds are floor(ts / 1e6)  *)
(* and its microsecond is ts mod 1e6; and fromtimestamp(dt.timestamp()) is *)
(* dt for every datetime dt.                                               *)
(***************************************************************************)
C28_FromTimestamp ==
    /\ (dt_out.cls = "datetime" /\ dt_out.op = "fromtimestamp"
        /\ dt_in[1] = UTC) =>
          dt_out.st = "ok" /\ dt_out.v = RefDatetimeOf(dt_in[2])
    /\ (dt_out.cls = "datetime" /\ dt_out.op = "fromtimestamp of timestamp"
        /\ dt_in[1] = UTC) =>
          dt_out.st = "ok" /\ dt_out.v = dt_a

\* the order of two tuples of fields, most significant first: -1, 0 or 1
RECURSIVE RefFieldOrder(_, _, _)
RefFieldOrder(f, g, i) ==
    IF i > Len(f) THEN 0
    ELSE IF f[i] < g[i] THEN -1
    ELSE IF f[i] > g[i] THEN 1
    ELSE RefFieldOrder(f, g, i + 1)

\* the order of two dates in time: that of their ordinals
RefOrdinalOrder(f, g) ==
    With(ymd_to_ord(f[1], f[2], f[3]) - ymd_to_ord(g[1], g[2], g[3]), LAMBDA d :
        IF d < 0 THEN -1 ELSE IF d > 0 THEN 1 ELSE 0)

(***************************************************************************)
(* C29: for valid fields the accessors of date, time and datetime return   *)
(* the values the object was constructed with; a <=> b on the bytes orders *)
(* two dates as their ordinals, and two times or datetimes as their fields *)
(* year, month, day, hour, minute, second, microsecond, lexicographically; *)
(* datetime::combine(dt.date(), dt.time()) is dt.                          *)
(***************************************************************************)
C29_PackedStorage ==
    /\ dt_out.op = "accessors" => dt_out.v = dt_in[2]
    /\ dt_out.op = "<=>" =>
          /\ dt_out.v.cmp = RefFieldOrder(dt_in[2], dt_out.v.rhs, 1)
          /\ dt_out.cls = "date" =>
                dt_out.v.cmp = RefOrdinalOrder(dt_in[2], dt_out.v.rhs)
    /\ dt_out.op = "combine" => dt_out.st = "ok" /\ dt_out.v = dt_a

\* date(255, 12, 28) < date(256, 1, 1): the years differ in both bytes
C29_Witness ==
    /\ dt_out.cls = "date" /\ dt_out.op = "<=>"
    /\ dt_in[2] = <<255, 12, 28>> /\ dt_out.v.rhs = <<256, 1, 1>>
    /\ dt_out.v.cmp = -1

\* the day of the year of a date, 1 on January 1
RefDayOfYear(d) == ymd_to_ord(d.year, d.month, d.day) - ymd_to_ord(d.year, 1, 1) + 1

\* the days of the year of d, up to d, that fall on the weekday wd (0 Monday)
RefDaysOn(d, wd) ==
    {k \in 1..RefDayOfYear(d) : (ymd_to_ord(d.year, 1, 1) + k - 1 + 6) % 7 = wd}

\* the first day of the year of d that falls on the weekday wd
RefFirst(d, wd) ==
    CHOOSE k \in 1..7 : (ymd_to_ord(d.year, 1, 1) + k - 1 + 6) % 7 = wd

\* n in width decimal digits, zeros in front
RECURSIVE RefDigits(_, _)
RefDigits(n, width) ==
    IF width = 0 THEN <<>>
    ELSE Append(RefDigits(n \div 10, width - 1),
                <<"0", "1", "2", "3", "4", "5", "6", "7", "8", "9">>[(n % 10) + 1])

\* the number a directive of weeks must give for the weekday wd
RefWeek(d, wd) ==
    IF RefDayOfYear(d) < RefFirst(d, wd) THEN 0
    ELSE 1 + (RefDayOfYear(d) - RefFirst(d, wd)) \div 7

(***************************************************************************)
(* C30: strftime("%W") (resp. "%U") gives, in two digits with a zero in    *)
(* front, the number of Mondays (resp. Sundays) of the year on or before   *)
(* the date, "00" before the first of them and 1 + (day_of_year - first)   *)
(* div 7 from it on, always within 0..53; strftime("%j") gives the day of  *)
(* the year in three digits, 001..366.                                     *)
(***************************************************************************)
C30_WeekOfYear ==
    (dt_out.op = "strftime" /\ dt_pc = "done") =>
        /\ dt_out.st = "ok"
        /\ dt_in[1] = <<"%", "j">> =>
              /\ dt_out.v = RefDigits(RefDayOfYear(dt_a), 3)
              /\ RefDayOfYear(dt_a) \in 1..366
        /\ \A wd \in {0, 6} :
              dt_in[1] = (IF wd = 0 THEN <<"%", "W">> ELSE <<"%", "U">>) =>
                  /\ dt_out.v = RefDigits(Cardinality(RefDaysOn(dt_a, wd)), 2)
                  /\ Cardinality(RefDaysOn(dt_a, wd)) = RefWeek(dt_a, wd)
                  /\ RefWeek(dt_a, wd) \in 0..53

\* 2012-12-31, the 366th day of a year that began on a Sunday: "%U" gives "53"
C30_Witness ==
    /\ dt_out.op = "strftime" /\ dt_pc = "done"
    /\ dt_a.year = 2012 /\ dt_a.month = 12 /\ dt_a.day = 31
    /\ dt_in[1] = <<"%", "U">>
    /\ dt_out.v = <<"5", "3">>

====
